---- MODULE Spec2Model ----
(***************************************************************************)
(* A model of sintia-discord's cross-transport dispatch and event fan-out: *)
(* the command registry and dispatcher (CommandProcessor), the generic     *)
(* envelope (GenChannel / GenMessage), the Discord fan-out                  *)
(* (Sintia.on_message), the IRC bridge (IrcBridge) and the rate limiter.   *)
(*                                                                         *)
(* Text is a sequence of atoms.  An atom is an indivisible piece of text:  *)
(* "SP", "TAB" and "NL" are the one-character strings ' ', '\t' and '\n';  *)
(* every other atom is a run of non-whitespace characters.  Two different  *)
(* atom sequences denote two different Python strings.                     *)
(***************************************************************************)
EXTENDS Integers, Sequences, FiniteSets, TLC

VARIABLES
    irc_bridge,         \* Sintia.irc_bridge: "None" or "IrcBridge"
    connected,          \* IrcBridge.connected (pydle): the IRC connection is up
    ready,              \* history: the on_ready events so far
    message_listeners,  \* Sintia.message_listeners
    gateway,            \* messages the bot posted to Discord, not yet delivered back as events
    message,            \* the discord.Message whose fan-out is in flight (or NoMessage)
    task,               \* the tasks asyncio.gather made in on_message, in argument order
    on_message,         \* the on_message coroutine: "idle", "awaiting", "returned", "raised"
    raised_with,        \* index of the task whose exception on_message raised (0: none)
    retrieved,          \* tasks whose exception gather marked retrieved without raising it
    irc_event,          \* the IRC event IrcBridge is handling (or NoEvent)
    relay,              \* IrcBridge.on_message / on_ctcp_action: "idle", "await_discord", ...
    call,               \* the arguments of the process_irc_message call in flight (or NoCall)
    dispatcher,         \* process_irc_message: "idle", "awaiting", "returned", "raised"
    handler,            \* the command handler it awaits: "none", "awaiting", "returned", "raised"
    channel_bridge,     \* GenChannel.irc_bridge of the channel a send goes through
    send_call,          \* the arguments of the GenChannel.send call in flight (or NoSend)
    send,               \* GenChannel.send: "idle", "awaiting", "returned", "raised"
    send_task,          \* the two tasks of its gather: <<irc_bridge.reply, discord_channel.send>>
    irc_log,            \* texts delivered to the IRC channel during the current event
    discord_log,        \* what was delivered to the Discord channel during the current event
    invoked,            \* command handlers started during the current event
    votes_stored,       \* tallies user_votes.add_votes persisted during the current event
    reactions,          \* reactions added to the current message
    rate_limits,        \* the dict get_rate_limits memoizes for each (action, *sections)
    now,                \* datetime.now(), in seconds
    duration,           \* the [ratelimits] section of config.ini: seconds per action
    last_recorded,      \* history: when record_action last ran for each key and user (-1: never)
    votes_handed,       \* the tallies vote_handler passed to user_votes.add_votes (current event)
    quote_calls,        \* the quote-vote handlers started: +q, -q and on_reaction_add, each
                        \* with its arguments and its position
    quote_score,        \* the score column of the quotes table, per quote id
    passed,             \* history: the calls that passed the is_rate_limited check and recorded
    gen_users,          \* the GenUser objects constructed, in order of construction
    gen_message,        \* the GenMessage add_reaction is called on (or NoGenMessage)
    add_reaction,       \* GenMessage.add_reaction: its position ("idle", "await_native",
                        \* "await_send", "returned", "raised") and its reaction argument
    countdown,          \* the countdown handler: its argument, its loop variable i, its
                        \* position and the two awaitables of the gather it awaits
    emoji_votes,        \* the user_emoji_votes table: amount per (user, emoji) row
    emoji_deltas        \* history: the add_emoji_vote calls so far, each with its delta

bridgeVars == <<irc_bridge, connected, message_listeners, gateway, ready>>
fanoutVars == <<message, task, on_message, raised_with, retrieved>>
relayVars == <<irc_event, relay>>
dispatchVars == <<call, dispatcher, handler>>
sendVars == <<channel_bridge, send_call, send, send_task>>
logVars == <<irc_log, discord_log, invoked, votes_stored, reactions, votes_handed>>
quoteVars == <<quote_calls, quote_score, passed>>
objectVars == <<gen_users, gen_message, add_reaction, countdown>>

rateVars == <<rate_limits, now, duration, last_recorded>>
storeVars == <<emoji_votes, emoji_deltas>>

vars == <<bridgeVars, fanoutVars, relayVars, dispatchVars, sendVars, logVars, rateVars,
          quoteVars, objectVars, storeVars>>

-----------------------------------------------------------------------------
(* Bounds *)

\* The most on_ready events (the first connect and the reconnects) of one behaviour.
MaxReady == 2

\* The most quote-vote handlers started in one behaviour.
MaxCalls == 2

\* The most GenUser objects constructed in one behaviour.
MaxObjects == 3

\* The most messages the bot posted to Discord that wait to come back as events.
MaxGateway == 1

\* The clock runs from 0 to MaxTime seconds.
MaxTime == 3

\* A configured rate-limit duration is 1..MaxDuration seconds.
MaxDuration == 2

-----------------------------------------------------------------------------
(* Text *)

\* str.isspace() of a one-atom string.
Whitespace == {"SP", "TAB", "NL"}

\* The index of the first occurrence of atom c in s, 0 when there is none (str.find + 1).
Find(s, c) ==
    IF \E i \in 1..Len(s) : s[i] = c
    THEN CHOOSE i \in 1..Len(s) : s[i] = c /\ \A j \in 1..(i - 1) : s[j] # c
    ELSE 0

\* str.partition(sep) for a one-atom separator: <<before, sep, after>>.
Partition(s, sep) ==
    LET i == Find(s, sep)
    IN  IF i = 0 THEN <<s, <<>>, <<>>>>
        ELSE <<SubSeq(s, 1, i - 1), <<sep>>, SubSeq(s, i + 1, Len(s))>>

\* str.strip(): leading and trailing whitespace removed.
Strip(s) ==
    LET keep == {i \in 1..Len(s) : s[i] \notin Whitespace}
    IN  IF keep = {} THEN <<>>
        ELSE LET lo == CHOOSE i \in keep : \A j \in keep : i <= j
                 hi == CHOOSE i \in keep : \A j \in keep : j <= i
             IN  SubSeq(s, lo, hi)

-----------------------------------------------------------------------------
(* Users and channels *)

\* The bot's own Discord user (Sintia.user); its name is the bridge's IRC nickname.
BotUser == 9
BotNickname == "sintia"

\* The members of the guild, by id, and users that are bots (IsBotNobody: author.bot
\* of an author taken for a person whoever it is).
Members == {1, 2, BotUser}
IsBotNobody(u) == FALSE
IsBot(u) == u = BotUser

\* discord.User.mention
Mention(u) == IF u = 1 THEN "<@1>" ELSE IF u = 2 THEN "<@2>" ELSE "<@9>"

\* The mention atoms a text may hold, and the id each carries; 3 is no member.
MentionAtoms == {"<@1>", "<@2>", "<@3>", "<@9>"}
MentionId(a) == IF a = "<@1>" THEN 1 ELSE IF a = "<@2>" THEN 2 ELSE IF a = "<@3>" THEN 3 ELSE BotUser

\* discord.Guild.get_member: the member, or None.
GetMember(id) == IF id \in Members THEN id ELSE 0

\* The Discord channel paired with the IRC room, and another channel of the guild.
BridgedChannel == "bridged"
Channels == {BridgedChannel, "other"}

\* config['irc_channel']
IrcChannel == "#room"

-----------------------------------------------------------------------------
(* Command registry *)

prefix == <<"!">>

\* The triggers each handler is registered under (the @command_handler decorators).
Registrations ==
    { <<"q", "read_quote">>, <<"fq", "find_quote">>, <<"lq", "last_quote">>,
      <<"bq", "best_quote">>, <<"iq", "quote_info">>, <<"aq", "add_quote">>,
      <<"+q", "upvote_quote">>, <<"-q", "downvote_quote">>, <<"g", "google_search">>,
      <<"gi", "google_image_search">>, <<"gif", "google_gif_search">>,
      <<"yt", "youtube_search">>, <<"w", "wikipedia_search">>,
      <<"ud", "urbandictionary_search">>, <<"countdown", "countdown">>,
      <<"hello", "greet">>, <<"score", "show_user_vote_score">>,
      <<"emoji", "show_user_emoji_vote_score">>, <<"lastspoke", "show_user_last_spoke">>,
      <<"time", "global_time">>, <<"stock", "stock">>, <<"stonk", "stock">>,
      <<"stonks", "stock">>, <<"metar", "metar">>, <<"roll", "roll">>,
      <<"conv", "convert">>, <<"convert", "convert">> }

\* CommandProcessor.__call__: commands[prefix + command] = func.
commands ==
    [ key \in { prefix \o <<r[1]>> : r \in Registrations } |->
        (CHOOSE r \in Registrations : prefix \o <<r[1]>> = key)[2] ]

-----------------------------------------------------------------------------
(* Vote aggregation (Sintia.vote_handler, first part) *)

IsFence(s, i) == i + 2 <= Len(s) /\ s[i] = "TICK" /\ s[i + 1] = "TICK" /\ s[i + 2] = "TICK"

\* Where a closing ``` may start for the opening ``` at i: '.+' needs one character
\* at least and crosses no newline.
FenceEnds(s, i) ==
    {k \in (i + 4)..(Len(s) - 2) : IsFence(s, k) /\ \A j \in (i + 3)..(k - 1) : s[j] # "NL"}

\* re.sub('```.+```', '', s): leftmost match, '.+' greedy, then on after the match.
RECURSIVE SubFenced(_)
SubFenced(s) ==
    LET starts == {i \in 1..Len(s) : IsFence(s, i) /\ FenceEnds(s, i) # {}}
    IN  IF starts = {} THEN s
        ELSE LET i == CHOOSE x \in starts : \A y \in starts : x <= y
                 k == CHOOSE x \in FenceEnds(s, i) : \A y \in FenceEnds(s, i) : y <= x
             IN  SubSeq(s, 1, i - 1) \o SubFenced(SubSeq(s, k + 3, Len(s)))

\* The closing ` of '`[^`]+`' for an opening ` at i: the next ` after at least one
\* other character (a newline is one); 0 when there is none.
InlineEnd(s, i) ==
    IF i + 1 <= Len(s) /\ s[i] = "TICK" /\ s[i + 1] # "TICK"
       /\ \E k \in (i + 2)..Len(s) : s[k] = "TICK"
    THEN CHOOSE k \in (i + 2)..Len(s) : s[k] = "TICK" /\ \A j \in (i + 2)..(k - 1) : s[j] # "TICK"
    ELSE 0

\* re.sub('`[^`]+`', '', s)
RECURSIVE SubInline(_)
SubInline(s) ==
    LET starts == {i \in 1..Len(s) : InlineEnd(s, i) # 0}
    IN  IF starts = {} THEN s
        ELSE LET i == CHOOSE x \in starts : \A y \in starts : x <= y
             IN  SubSeq(s, 1, i - 1) \o SubInline(SubSeq(s, InlineEnd(s, i) + 1, Len(s)))

\* clean_content of vote_handler: code blocks removed.
VoteCleanContent(s) == SubInline(SubFenced(s))

\* point_value with every token worth +1.
point_value_up(action) == 1

point_value(action) == IF action = "++" THEN 1 ELSE -1

\* re.findall(r'<@!?([0-9]+)>(\+\+|--)', s): the places of a mention with ++ or --
\* right after it.
VoteMatches(s) ==
    {i \in 1..(Len(s) - 1) : s[i] \in MentionAtoms /\ s[i + 1] \in {"++", "--"}}

\* aggregated_votes: for each guild.get_member(id) that was voted on (0 is None), the
\* sum of its tokens' values.
RECURSIVE SumVotes(_, _, _)
SumVotes(s, places, target) ==
    IF places = {} THEN 0
    ELSE LET i == CHOOSE x \in places : TRUE
         IN  (IF GetMember(MentionId(s[i])) = target THEN point_value(s[i + 1]) ELSE 0)
             + SumVotes(s, places \ {i}, target)

AggregatedVotes(content) ==
    LET s == VoteCleanContent(content)
        targets == {GetMember(MentionId(s[i])) : i \in VoteMatches(s)}
    IN  [t \in targets |-> SumVotes(s, VoteMatches(s), t)]

\* aggregated_votes with the author's entry left in.
KeepAuthor(votes, author) == votes

\* aggregated_votes after pop(message.author, None)
WithoutAuthor(votes, author) == [t \in DOMAIN votes \ {author} |-> votes[t]]

\* has_self_vote: the popped value (None and 0 are falsy).
HasSelfVote(votes, author) == author \in DOMAIN votes /\ votes[author] # 0

\* The rows user_votes.add_votes builds: one per target whose score is not 0.
VoteRows(votes) == {<<t, votes[t]>> : t \in {x \in DOMAIN votes : votes[x] # 0}}

\* vote_handler up to its first suspension: it returns ("done"), or add_votes fails
\* on voted_user.id of a None member ("raised"), or it awaits the store.
VoteHandlerStart(m) ==
    LET votes == AggregatedVotes(m.content)
        rest == WithoutAuthor(votes, m.author)
    IN  IF IsBot(m.author) THEN "done"
        ELSE IF HasSelfVote(votes, m.author) \/ DOMAIN rest = {} THEN "done"
        ELSE IF 0 \in DOMAIN rest THEN "raised"
        ELSE "await_store"

-----------------------------------------------------------------------------
(* The rate limiter: get_rate_limits, record_action, is_rate_limited *)

\* The actions config.ini gives a duration.
ConfiguredActions == {"quote.add", "quote.vote"}

\* The (action, *sections) the handlers use: quote.add unscoped, quote.vote per quote.
RateKeys ==
    {[action |-> "quote.add", sections |-> <<>>],
     [action |-> "quote.vote", sections |-> <<5>>],
     [action |-> "quote.vote", sections |-> <<6>>]}

RateUsers == {1, 2}

\* get_rate_limits memoized on the action alone: every scope of an action shares
\* one dict.
get_rate_limits_per_action(k) == rate_limits[CHOOSE x \in RateKeys : x.action = k.action]

\* get_rate_limits(action, *sections): lru_cache returns the one dict of these
\* arguments, empty when first made.
get_rate_limits(k) == rate_limits[k]

NoRateLimits == [k \in RateKeys |-> <<>>]

\* d.setdefault(user_id, t): an id the dict holds keeps its timestamp.
DictSetDefault(d, u, t) == [x \in DOMAIN d \cup {u} |-> IF x \in DOMAIN d THEN d[x] ELSE t]

\* A dict user_id -> timestamp is a function on the ids it holds; d[user_id] = t.
DictSet(d, u, t) == [x \in DOMAIN d \cup {u} |-> IF x = u THEN t ELSE d[x]]

\* record_action whose write is lost.
record_action_lost(u, k) == rate_limits

\* record_action(user_id, action, *sections)
record_action(u, k) == [rate_limits EXCEPT ![k] = DictSet(get_rate_limits(k), u, now)]

\* is_rate_limited with the window closed at its end: >= for >.
is_rate_limited_closed(u, k) ==
    IF u \notin DOMAIN get_rate_limits(k) THEN FALSE
    ELSE get_rate_limits(k)[u] + duration[k.action] >= now

\* is_rate_limited(user_id, action, *sections), for an action with a configured
\* duration: rate_limits[user_id] + duration > datetime.now().
is_rate_limited(u, k) ==
    IF u \notin DOMAIN get_rate_limits(k) THEN FALSE
    ELSE get_rate_limits(k)[u] + duration[k.action] > now

\* is_rate_limited raises instead of returning: for an action the [ratelimits]
\* section does not hold, getint(action) is None and timedelta(seconds=None) raises
\* TypeError; the line is reached once the user has an entry.
is_rate_limited_raises(u, k) ==
    u \in DOMAIN get_rate_limits(k) /\ k.action \notin DOMAIN duration

NeverRecorded == [k \in RateKeys |-> [u \in RateUsers |-> -1]]

RateIdle ==
    /\ rate_limits = NoRateLimits
    /\ now = 0
    /\ duration = [a \in ConfiguredActions |-> 1]
    /\ last_recorded = NeverRecorded

\* The quotes the votes are on, and the state before any vote on them.
Quotes == {5, 6}

QuoteIdle ==
    /\ quote_calls = <<>>
    /\ quote_score = [q \in Quotes |-> 0]
    /\ passed = <<>>

\* No GenUser has been constructed and add_reaction is not running.
NoGenMessage == [discord_message |-> "None", author |-> "none"]

NoCountdown == [argument |-> <<>>, i |-> 0, pc |-> "idle", send |-> "none", sleep |-> "none"]

ObjectsIdle ==
    /\ gen_users = <<>>
    /\ gen_message = NoGenMessage
    /\ add_reaction = [pc |-> "idle", reaction |-> "none"]
    /\ countdown = NoCountdown

-----------------------------------------------------------------------------
(* Messages and events *)

\* A message: relayed is the IRC message it relays, for one the bridge posted.
NoMessage == [content |-> <<>>, author |-> 0, channel |-> "none", relayed |-> <<>>]

NoEvent == [kind |-> "none", target |-> "none", source |-> "none", text |-> <<>>]

NoCall == [who |-> "none", text |-> <<>>]

NoEmbed == <<>>

NoSend == [content |-> <<>>, embed |-> NoEmbed]

\* What users write on Discord.
Contents ==
    { <<"!", "hello">>,
      <<"!", "hello", "SP", "SP", "foo", "SP">>,
      <<"!", "hello", "TAB", "foo">>,
      <<"!", "hello", "NL", "foo">>,
      <<"!", "Hello">>,
      <<"!", "unknownxyz", "SP", "foo">>,
      <<"SP", "!", "hello">>,
      <<"foo">>,
      <<"<@2>", "SP", "!", "hello">>,
      <<"<@2>", "++">>,
      <<"<@3>", "++", "SP", "<@2>", "--">>,
      <<"TICK", "<@2>", "++", "TICK">> }

\* What users write on IRC.
IrcTexts ==
    { <<"!", "hello">>, <<"!", "hello", "SP", "foo">>, <<"alice", "++">>, <<":party:">> }

\* discord.Message.clean_content: a mention of a member reads @name.
CleanAtom(a) ==
    IF a = "<@1>" THEN "@alice" ELSE IF a = "<@2>" THEN "@bob"
    ELSE IF a = "<@9>" THEN "@sintia" ELSE a

clean_content(s) == [i \in 1..Len(s) |-> CleanAtom(s[i])]

\* discord.Member.display_name
DisplayName(u) == IF u = 1 THEN "alice" ELSE IF u = 2 THEN "bob" ELSE BotNickname

\* str.split('\n')
RECURSIVE SplitLines(_)
SplitLines(s) ==
    LET i == Find(s, "NL")
    IN  IF i = 0 THEN <<s>>
        ELSE <<SubSeq(s, 1, i - 1)>> \o SplitLines(SubSeq(s, i + 1, Len(s)))

\* '\n'.join(lines)
RECURSIVE JoinLines(_)
JoinLines(lines) ==
    IF Len(lines) = 1 THEN lines[1]
    ELSE lines[1] \o <<"NL">> \o JoinLines(Tail(lines))

\* What on_discord_message sends to IRC for a message without attachments: every
\* line of clean_content + ' ' behind the author's name in bold.
IrcRendering(m) ==
    LET full_message == clean_content(m.content) \o <<"SP">>
        lines == SplitLines(full_message)
    IN  JoinLines([i \in 1..Len(lines) |->
                     <<"<", "\\x02", DisplayName(m.author), "\\x02", ">", "SP">> \o lines[i]])

\* user_cache: lower-cased member names and nicks, to the member.
user_cache == [n \in {"alice", "bob", BotNickname} |->
                 IF n = "alice" THEN 1 ELSE IF n = "bob" THEN 2 ELSE BotUser]

\* emoji_cache, each emoji as str(emoji)
emoji_cache == [n \in {"party"} |-> "<:party:7>"]

\* IrcBridge.on_message's two re.sub calls: a member's name becomes the mention, an
\* emoji's :name: becomes the emoji.
IrcSubstitute(s) ==
    [i \in 1..Len(s) |->
        IF s[i] \in DOMAIN user_cache THEN Mention(user_cache[s[i]])
        ELSE IF s[i] = ":party:" THEN emoji_cache["party"]
        ELSE s[i]]

\* The text IrcBridge posts to Discord for an IRC message or a CTCP action.
DiscordRendering(e) ==
    IF e.kind = "message"
    THEN <<"<**", e.source, "**>", "SP">> \o IrcSubstitute(e.text)
    ELSE <<"*", "SP", "**", e.source, "**", "SP">> \o e.text

-----------------------------------------------------------------------------
(* The Discord fan-out: Sintia.on_message *)

\* The tasks of on_message's gather, in argument order; the listeners follow.
VoteTask == 1
StatsTask == 2
DispatchTask == 3
ListenerTask(i) == 3 + i

Waiting == {"await_store", "await_react", "await_irc"}

\* process_discord_message: the trigger and the argument it takes from the content.
DiscordTrigger(m) == Partition(clean_content(m.content), "SP")[1]
DiscordArgument(m) == Strip(Partition(clean_content(m.content), "SP")[3])

\* process_discord_message up to its first suspension.  For a registered trigger it
\* builds the handler's coroutine and then evaluates user_stats.record_command, a
\* name user_stats does not define: AttributeError, before gather is called and
\* before the handler's coroutine is started.
ProcessDiscordMessageStart(m) ==
    IF DiscordTrigger(m) \notin DOMAIN commands THEN "done" ELSE "raised"

\* An on_discord_message that relays the bot's own messages too.
OnDiscordMessageStartEcho(m) ==
    IF ~connected THEN "done"
    ELSE IF m.channel # BridgedChannel THEN "done"
    ELSE "await_irc"

\* IrcBridge.on_discord_message up to its first suspension.
OnDiscordMessageStart(m) ==
    IF ~connected THEN "done"
    ELSE IF m.author = BotUser THEN "done"
    ELSE IF m.channel # BridgedChannel THEN "done"
    ELSE "await_irc"

\* Each task of the gather after its first step; the steps run in argument order
\* before any awaited I/O completes.
FirstSteps(m) ==
    <<VoteHandlerStart(m), "await_store", ProcessDiscordMessageStart(m)>>
    \o [i \in 1..Len(message_listeners) |-> OnDiscordMessageStart(m)]

\* asyncio.gather without return_exceptions, as on_message awaits it: the first
\* exception is raised at once, the other tasks are left running; the await returns
\* when every task has returned.
GatherOutcome(t) ==
    IF \E i \in 1..Len(t) : t[i] = "raised" THEN "raised"
    ELSE IF \A i \in 1..Len(t) : t[i] = "done" THEN "returned"
    ELSE "awaiting"

FirstRaised(t) ==
    IF \E i \in 1..Len(t) : t[i] = "raised"
    THEN CHOOSE i \in 1..Len(t) : t[i] = "raised" /\ \A j \in 1..(i - 1) : t[j] # "raised"
    ELSE 0

\* Nothing is in flight: no task awaits I/O and the bridge relays nothing.
Quiescent ==
    /\ \A i \in 1..Len(task) : task[i] \notin Waiting
    /\ relay # "await_discord"
    /\ \A i \in 1..Len(send_task) : send_task[i] # "running"

\* A task of the gather finishes with outcome o ("done" or "raised"): gather's done
\* callback.  While on_message still awaits, an exception is raised out of the await
\* and a last return lets it return; once on_message has raised, a later exception
\* is only marked retrieved.
Settle(i, o) ==
    /\ task' = [task EXCEPT ![i] = o]
    /\ on_message' = IF on_message = "awaiting" THEN GatherOutcome(task') ELSE on_message
    /\ raised_with' = IF on_message = "awaiting" /\ o = "raised" THEN i ELSE raised_with
    /\ retrieved' = IF on_message # "awaiting" /\ o = "raised"
                    THEN retrieved \cup {i} ELSE retrieved

\* The per-event state of each part, as a new event finds it.
FanoutIdle ==
    /\ message' = NoMessage
    /\ task' = <<>>
    /\ on_message' = "idle"
    /\ raised_with' = 0
    /\ retrieved' = {}

RelayIdle == irc_event' = NoEvent /\ relay' = "idle"

DispatchIdle == call' = NoCall /\ dispatcher' = "idle" /\ handler' = "none"

SendIdle ==
    /\ channel_bridge' = "None"
    /\ send_call' = NoSend
    /\ send' = "idle"
    /\ send_task' = <<>>

LogsEmpty ==
    /\ irc_log' = <<>>
    /\ discord_log' = <<>>
    /\ invoked' = <<>>
    /\ votes_stored' = <<>>
    /\ reactions' = {}
    /\ votes_handed' = <<>>

\* What vote_handler passes to user_votes.add_votes in its first step: nothing when
\* it returns early, else aggregated_votes as the pop left it.
HandedVotes(m) ==
    IF VoteHandlerStart(m) = "done" THEN <<>>
    ELSE <<WithoutAuthor(AggregatedVotes(m.content), m.author)>>

\* on_message(m): the gather is built and every task runs to its first suspension.
Fanout(m) ==
    /\ message' = m
    /\ task' = FirstSteps(m)
    /\ on_message' = GatherOutcome(task')
    /\ raised_with' = FirstRaised(task')
    /\ retrieved' = {i \in 1..Len(task') : task'[i] = "raised"} \ {FirstRaised(task')}
    /\ RelayIdle
    /\ DispatchIdle
    /\ SendIdle
    /\ irc_log' = <<>>
    /\ discord_log' = <<>>
    /\ invoked' = <<>>
    /\ votes_stored' = <<>>
    /\ reactions' = {}
    /\ votes_handed' = HandedVotes(m)

Init ==
    /\ irc_bridge = "None"
    /\ connected = FALSE
    /\ ready = 0
    /\ emoji_votes = <<>>
    /\ emoji_deltas = <<>>
    /\ message_listeners = <<>>
    /\ gateway = <<>>
    /\ message = NoMessage
    /\ task = <<>>
    /\ on_message = "idle"
    /\ raised_with = 0
    /\ retrieved = {}
    /\ irc_event = NoEvent
    /\ relay = "idle"
    /\ call = NoCall
    /\ dispatcher = "idle"
    /\ handler = "none"
    /\ channel_bridge = "None"
    /\ send_call = NoSend
    /\ send = "idle"
    /\ send_task = <<>>
    /\ irc_log = <<>>
    /\ discord_log = <<>>
    /\ invoked = <<>>
    /\ votes_stored = <<>>
    /\ reactions = {}
    /\ votes_handed = <<>>
    /\ QuoteIdle
    /\ ObjectsIdle
    /\ RateIdle

\* An on_ready that makes a bridge on every event.
OnReadyAgain ==
    /\ ready < MaxReady
    /\ ready' = ready + 1
    /\ irc_bridge' = "IrcBridge"
    /\ message_listeners' = Append(message_listeners, "on_discord_message")
    /\ UNCHANGED <<storeVars, quoteVars, objectVars, rateVars, connected, gateway, fanoutVars, relayVars,
                   dispatchVars, sendVars, logVars>>

\* Sintia.on_ready: the bridge is made once; IrcBridge.__init__ registers its listener.
OnReady ==
    /\ ready < MaxReady
    /\ ready' = ready + 1
    /\ irc_bridge' = "IrcBridge"
    /\ message_listeners' = IF irc_bridge = "None"
                            THEN Append(message_listeners, "on_discord_message")
                            ELSE message_listeners
    /\ UNCHANGED <<storeVars, quoteVars, objectVars, rateVars, connected, gateway, fanoutVars, relayVars, dispatchVars, sendVars, logVars>>

\* The connect task IrcBridge.__init__ started completes (on_connect joins the room),
\* or the connection is lost.
IrcConnection ==
    /\ irc_bridge = "IrcBridge"
    /\ connected' = ~connected
    /\ UNCHANGED <<storeVars, quoteVars, objectVars, rateVars, irc_bridge, ready, message_listeners, gateway, fanoutVars, relayVars,
                   dispatchVars, sendVars, logVars>>

\* A user's message arrives from the gateway.
OnUserMessage ==
    /\ Quiescent
    /\ \E c \in Contents, a \in {1, 2}, ch \in Channels :
         Fanout([content |-> c, author |-> a, channel |-> ch, relayed |-> <<>>])
    /\ UNCHANGED <<storeVars, quoteVars, objectVars, bridgeVars, rateVars>>

\* A message the bot itself posted arrives from the gateway: on_message does not
\* skip the bot's own messages (the check is commented out).
OnOwnMessage ==
    /\ Quiescent
    /\ gateway # <<>>
    /\ Fanout(Head(gateway))
    /\ gateway' = Tail(gateway)
    /\ UNCHANGED <<storeVars, quoteVars, objectVars, rateVars, irc_bridge, ready, connected, message_listeners>>

\* A vote_handler that goes on to the reaction whether add_votes completed or
\* failed.
StoreVotesSwallowed ==
    /\ task # <<>>
    /\ task[VoteTask] = "await_store"
    /\ task' = [task EXCEPT ![VoteTask] = "await_react"]
    /\ \/ votes_stored' = Append(votes_stored,
                 VoteRows(WithoutAuthor(AggregatedVotes(message.content), message.author)))
       \/ UNCHANGED votes_stored
    /\ UNCHANGED <<storeVars, quoteVars, objectVars, rateVars, bridgeVars, message, relayVars, dispatchVars,
                   sendVars, irc_log, discord_log, invoked, reactions, votes_handed,
                   on_message, raised_with, retrieved>>

\* vote_handler: user_votes.add_votes completes, or fails.
StoreVotes ==
    /\ task # <<>>
    /\ task[VoteTask] = "await_store"
    /\ \/ /\ task' = [task EXCEPT ![VoteTask] = "await_react"]
          /\ votes_stored' = Append(votes_stored,
                 VoteRows(WithoutAuthor(AggregatedVotes(message.content), message.author)))
          /\ UNCHANGED <<on_message, raised_with, retrieved>>
       \/ /\ Settle(VoteTask, "raised")
          /\ UNCHANGED votes_stored
    /\ UNCHANGED <<storeVars, quoteVars, objectVars, rateVars, bridgeVars, message, relayVars, dispatchVars, sendVars, irc_log,
                   discord_log, invoked, reactions, votes_handed>>

\* vote_handler: message.add_reaction completes, or fails.
AddReaction ==
    /\ task # <<>>
    /\ task[VoteTask] = "await_react"
    /\ \/ /\ Settle(VoteTask, "done")
          /\ reactions' = reactions \cup {"check"}
       \/ /\ Settle(VoteTask, "raised")
          /\ UNCHANGED reactions
    /\ UNCHANGED <<storeVars, quoteVars, objectVars, rateVars, bridgeVars, message, relayVars, dispatchVars, sendVars, irc_log,
                   discord_log, invoked, votes_stored, votes_handed>>

\* user_stats.record_message: the store call completes, or fails.
RecordMessage ==
    /\ task # <<>>
    /\ task[StatsTask] = "await_store"
    /\ \E o \in {"done", "raised"} : Settle(StatsTask, o)
    /\ UNCHANGED <<storeVars, quoteVars, objectVars, rateVars, bridgeVars, message, relayVars, dispatchVars, sendVars, logVars>>

\* IrcBridge.on_discord_message: self.message(...) completes, or fails.
ListenerSend ==
    /\ \E i \in 1..(Len(task) - 3) :
         /\ task[ListenerTask(i)] = "await_irc"
         /\ \/ /\ Settle(ListenerTask(i), "done")
               /\ irc_log' = Append(irc_log, IrcRendering(message))
            \/ /\ Settle(ListenerTask(i), "raised")
               /\ UNCHANGED irc_log
    /\ UNCHANGED <<storeVars, quoteVars, objectVars, rateVars, bridgeVars, message, relayVars, dispatchVars, sendVars, discord_log,
                   invoked, votes_stored, reactions, votes_handed>>

-----------------------------------------------------------------------------
(* The IRC bridge: IrcBridge.on_message and on_ctcp_action *)

IrcSources == {"carol", BotNickname}
IrcTargets == {IrcChannel, BotNickname}

\* Both handlers up to their first suspension.
RelayStart(e) ==
    IF e.source = BotNickname THEN "ignored"
    ELSE IF e.target # IrcChannel THEN "ignored"
    ELSE "await_discord"

\* An IRC message or CTCP action reaches the bridge.
IrcEvent(kind) ==
    /\ Quiescent
    /\ irc_bridge = "IrcBridge"
    /\ connected
    /\ Len(gateway) < MaxGateway
    /\ \E tg \in IrcTargets, src \in IrcSources, tx \in IrcTexts :
         /\ irc_event' = [kind |-> kind, target |-> tg, source |-> src, text |-> tx]
         /\ relay' = RelayStart(irc_event')
    /\ FanoutIdle
    /\ DispatchIdle
    /\ SendIdle
    /\ LogsEmpty
    /\ UNCHANGED <<storeVars, quoteVars, objectVars, bridgeVars, rateVars>>

IrcOnMessage == IrcEvent("message")

IrcOnCtcpAction == IrcEvent("action")

\* discord_channel.send completes (Discord will deliver the bot's message back as an
\* event), or fails.
RelaySend ==
    /\ relay = "await_discord"
    /\ \/ /\ relay' = "done"
          /\ discord_log' = Append(discord_log, [content |-> DiscordRendering(irc_event),
                                                   embed |-> NoEmbed])
          /\ gateway' = Append(gateway, [content |-> DiscordRendering(irc_event),
                                         author |-> BotUser,
                                         channel |-> BridgedChannel,
                                         relayed |-> IF irc_event.kind = "message"
                                                     THEN irc_event.text ELSE <<>>])
       \/ /\ relay' = "raised"
          /\ UNCHANGED <<discord_log, gateway>>
    /\ UNCHANGED <<storeVars, quoteVars, objectVars, rateVars, irc_bridge, ready, connected, message_listeners, fanoutVars, irc_event,
                   dispatchVars, sendVars, irc_log, invoked, votes_stored, reactions, votes_handed>>

-----------------------------------------------------------------------------
(* GenChannel.send *)

\* An embed is <<title, url, description>>; NoEmbed is None.
Embeds == {<<"Title", "http://u", "Description">>, <<"T2", "http://v", "D2">>}

\* irc_content: an embed is rendered as text for IRC.
IrcContent(c) ==
    IF c.embed # NoEmbed
    THEN <<c.embed[1], "SP", "(", c.embed[2], ")", "NL", c.embed[3]>>
    ELSE c.content

\* GenChannel.send up to its await.  The arguments of gather are evaluated first:
\* self.irc_bridge.reply(...) on a channel whose irc_bridge is None raises
\* AttributeError before discord_channel.send(...) is evaluated, so neither task
\* exists.  Otherwise gather makes the two tasks.
SendTasks(bridge) == IF bridge = "None" THEN <<>> ELSE <<"running", "running">>

SendStart(bridge) == IF bridge = "None" THEN "raised" ELSE "awaiting"

StartSend(bridge, c) ==
    /\ channel_bridge' = bridge
    /\ send_call' = c
    /\ send_task' = SendTasks(bridge)
    /\ send' = SendStart(bridge)

\* What awaits the send goes on when it settles: greet returns what send returns,
\* and process_irc_message awaits the handler with no try around it.
AfterSend ==
    /\ handler' = IF handler = "awaiting" /\ send' \in {"returned", "raised"}
                  THEN send' ELSE handler
    /\ dispatcher' = IF dispatcher = "awaiting" /\ handler' \in {"returned", "raised"}
                     THEN handler' ELSE dispatcher

\* One task of send's gather finishes.
SettleSend(i, o) ==
    /\ send_task' = [send_task EXCEPT ![i] = o]
    /\ send' = IF send = "awaiting" THEN GatherOutcome(send_task') ELSE send
    /\ AfterSend

\* irc_bridge.reply(discord_channel, irc_content) completes, or fails.
IrcReply ==
    /\ send_task # <<>>
    /\ send_task[1] = "running"
    /\ \/ /\ SettleSend(1, "done")
          /\ irc_log' = Append(irc_log, IrcContent(send_call))
       \/ /\ SettleSend(1, "raised")
          /\ UNCHANGED irc_log
    /\ UNCHANGED <<storeVars, quoteVars, objectVars, rateVars, bridgeVars, fanoutVars, relayVars, call, channel_bridge, send_call,
                   discord_log, invoked, votes_stored, reactions, votes_handed>>

\* discord_channel.send(content, embed=embed) completes (Discord will deliver the
\* bot's message back as an event), or fails.
DiscordSend ==
    /\ send_task # <<>>
    /\ send_task[2] = "running"
    /\ \/ /\ SettleSend(2, "done")
          /\ discord_log' = Append(discord_log, send_call)
          /\ gateway' = Append(gateway, [content |-> send_call.content,
                                         author |-> BotUser,
                                         channel |-> BridgedChannel,
                                         relayed |-> <<>>])
       \/ /\ SettleSend(2, "raised")
          /\ UNCHANGED <<discord_log, gateway>>
    /\ UNCHANGED <<storeVars, quoteVars, objectVars, rateVars, irc_bridge, ready, connected, message_listeners, fanoutVars, relayVars, call,
                   channel_bridge, send_call, irc_log, invoked, votes_stored, reactions, votes_handed>>

-----------------------------------------------------------------------------
(* CommandProcessor.process_irc_message and the handlers *)

\* The trigger and the argument process_irc_message takes from the text.
IrcTrigger(text) == Partition(text, "SP")[1]
IrcArgument(text) == Strip(Partition(text, "SP")[3])

\* greet: the one message it sends; GenUser(irc_user=who).mention is the nickname.
GreetReply(who) == [content |-> <<"Hello", "SP", who>>, embed |-> NoEmbed]

\* What a handler sends first.  Of the registered triggers the texts of Contents
\* hold only !hello, so greet is the handler that runs.
HandlerSend(name, who, argument) == CASE name = "greet" -> GreetReply(who)

\* process_irc_message up to its first suspension: it returns for an unregistered
\* trigger; GenMessage(irc_bridge, author=who) reads irc_bridge.discord_guild and
\* raises AttributeError while the bridge is None; else the handler is awaited.
ProcessIrcMessageStart(text) ==
    IF IrcTrigger(text) \notin DOMAIN commands THEN "returned"
    ELSE IF irc_bridge = "None" THEN "raised"
    ELSE "awaiting"

\* process_irc_message(instance, irc_bridge, discord_channel, who, text) is called.
ProcessIrcMessage ==
    /\ Quiescent
    /\ Len(gateway) < MaxGateway
    /\ \E who \in IrcSources, text \in Contents :
         /\ call' = [who |-> who, text |-> text]
         /\ dispatcher' = ProcessIrcMessageStart(text)
         /\ IF dispatcher' = "awaiting"
            THEN /\ handler' = "awaiting"
                 /\ invoked' = <<[handler |-> commands[IrcTrigger(text)],
                                  argument |-> IrcArgument(text)]>>
                 /\ StartSend(irc_bridge, HandlerSend(commands[IrcTrigger(text)], who,
                                                     IrcArgument(text)))
            ELSE /\ handler' = "none"
                 /\ invoked' = <<>>
                 /\ SendIdle
    /\ FanoutIdle
    /\ RelayIdle
    /\ irc_log' = <<>>
    /\ discord_log' = <<>>
    /\ votes_stored' = <<>>
    /\ reactions' = {}
    /\ votes_handed' = <<>>
    /\ UNCHANGED <<storeVars, quoteVars, objectVars, bridgeVars, rateVars>>

Next ==
    \/ OnReady
    \/ IrcConnection
    \/ OnUserMessage
    \/ OnOwnMessage
    \/ StoreVotes
    \/ AddReaction
    \/ RecordMessage
    \/ ListenerSend
    \/ IrcOnMessage
    \/ IrcOnCtcpAction
    \/ RelaySend
    \/ ProcessIrcMessage
    \/ IrcReply
    \/ DiscordSend

Spec == Init /\ [][Next]_vars

-----------------------------------------------------------------------------
(* GenChannel.send on its own: a channel made by GenMessage.__init__ carries the
   irc_bridge the dispatcher was given, which is None until on_ready has run. *)

SendInputs ==
    {[content |-> c, embed |-> e] :
        c \in {<<"Hello", "SP", "<@1>">>, <<"DONE!">>, <<"No", "SP", "quotes">>, <<>>}, e \in Embeds \cup {NoEmbed}}

InitSend ==
    /\ irc_bridge \in {"None", "IrcBridge"}
    /\ connected = FALSE
    /\ ready = 0
    /\ emoji_votes = <<>>
    /\ emoji_deltas = <<>>
    /\ message_listeners = IF irc_bridge = "None" THEN <<>> ELSE <<"on_discord_message">>
    /\ gateway = <<>>
    /\ message = NoMessage
    /\ task = <<>>
    /\ on_message = "idle"
    /\ raised_with = 0
    /\ retrieved = {}
    /\ irc_event = NoEvent
    /\ relay = "idle"
    /\ call = NoCall
    /\ dispatcher = "idle"
    /\ handler = "none"
    /\ channel_bridge = irc_bridge
    /\ send_call \in SendInputs
    /\ send = "idle"
    /\ send_task = <<>>
    /\ irc_log = <<>>
    /\ discord_log = <<>>
    /\ invoked = <<>>
    /\ votes_stored = <<>>
    /\ reactions = {}
    /\ votes_handed = <<>>
    /\ QuoteIdle
    /\ ObjectsIdle
    /\ RateIdle

\* channel.send(content, embed) is called.
GenChannelSend ==
    /\ send = "idle"
    /\ StartSend(channel_bridge, send_call)
    /\ UNCHANGED <<storeVars, quoteVars, objectVars, rateVars, bridgeVars, fanoutVars, relayVars, dispatchVars, logVars>>

NextSend ==
    \/ GenChannelSend
    \/ IrcReply
    \/ DiscordSend

SpecSend == InitSend /\ [][NextSend]_vars

-----------------------------------------------------------------------------
(* The rate limiter on its own: any record_action calls, at any times, under any
   configured durations. *)

InitRate ==
    /\ irc_bridge = "None"
    /\ connected = FALSE
    /\ ready = 0
    /\ emoji_votes = <<>>
    /\ emoji_deltas = <<>>
    /\ message_listeners = <<>>
    /\ gateway = <<>>
    /\ message = NoMessage
    /\ task = <<>>
    /\ on_message = "idle"
    /\ raised_with = 0
    /\ retrieved = {}
    /\ irc_event = NoEvent
    /\ relay = "idle"
    /\ call = NoCall
    /\ dispatcher = "idle"
    /\ handler = "none"
    /\ channel_bridge = "None"
    /\ send_call = NoSend
    /\ send = "idle"
    /\ send_task = <<>>
    /\ irc_log = <<>>
    /\ discord_log = <<>>
    /\ invoked = <<>>
    /\ votes_stored = <<>>
    /\ reactions = {}
    /\ votes_handed = <<>>
    /\ QuoteIdle
    /\ ObjectsIdle
    /\ rate_limits = NoRateLimits
    /\ now = 0
    /\ duration \in [ConfiguredActions -> 1..MaxDuration]
    /\ last_recorded = NeverRecorded

\* record_action(u, action, *sections) is called.
RecordAction ==
    /\ \E u \in RateUsers, k \in RateKeys :
         /\ rate_limits' = record_action(u, k)
         /\ last_recorded' = [last_recorded EXCEPT ![k][u] = now]
    /\ UNCHANGED <<storeVars, quoteVars, objectVars, bridgeVars, fanoutVars, relayVars, dispatchVars, sendVars, logVars,
                   now, duration>>

\* A second passes.
Tick ==
    /\ now < MaxTime
    /\ now' = now + 1
    /\ UNCHANGED <<storeVars, quoteVars, objectVars, bridgeVars, fanoutVars, relayVars, dispatchVars, sendVars, logVars,
                   rate_limits, duration, last_recorded>>

NextRate ==
    \/ RecordAction
    \/ Tick

SpecRate == InitRate /\ [][NextRate]_vars

\* record_action called by a caller that keeps a log of its calls, whether or not
\* the key is rate-limited at the time.
RecordLogged ==
    /\ Len(passed) < MaxCalls
    /\ \E u \in RateUsers, k \in RateKeys :
         /\ rate_limits' = record_action(u, k)
         /\ last_recorded' = [last_recorded EXCEPT ![k][u] = now]
         /\ passed' = Append(passed, [user |-> u,
                                      quote |-> IF k.sections = <<>> THEN 0 ELSE k.sections[1],
                                      time |-> now])
    /\ UNCHANGED <<storeVars, quote_calls, quote_score, objectVars, bridgeVars, fanoutVars, relayVars,
                   dispatchVars, sendVars, logVars, now, duration>>

NextRecord ==
    \/ RecordLogged
    \/ Tick

SpecRecord == InitRate /\ [][NextRecord]_vars

\* The same under any config.ini: its [ratelimits] section holds a duration for
\* some of the actions the handlers use, not necessarily for all.
InitRateConfig ==
    /\ irc_bridge = "None"
    /\ connected = FALSE
    /\ ready = 0
    /\ emoji_votes = <<>>
    /\ emoji_deltas = <<>>
    /\ message_listeners = <<>>
    /\ gateway = <<>>
    /\ message = NoMessage
    /\ task = <<>>
    /\ on_message = "idle"
    /\ raised_with = 0
    /\ retrieved = {}
    /\ irc_event = NoEvent
    /\ relay = "idle"
    /\ call = NoCall
    /\ dispatcher = "idle"
    /\ handler = "none"
    /\ channel_bridge = "None"
    /\ send_call = NoSend
    /\ send = "idle"
    /\ send_task = <<>>
    /\ irc_log = <<>>
    /\ discord_log = <<>>
    /\ invoked = <<>>
    /\ votes_stored = <<>>
    /\ reactions = {}
    /\ votes_handed = <<>>
    /\ QuoteIdle
    /\ ObjectsIdle
    /\ rate_limits = NoRateLimits
    /\ now = 0
    /\ duration \in UNION {[A -> 1..MaxDuration] : A \in SUBSET ConfiguredActions}
    /\ last_recorded = NeverRecorded

SpecRateConfig == InitRateConfig /\ [][NextRate]_vars

-----------------------------------------------------------------------------
(* Votes on quotes and new quotes: the +q, -q and aq handlers and on_reaction_add,
   several in flight.  A handler runs from one await to the next without
   interruption. *)

\* The arguments users give +q and -q, all of digits (the handlers return at once
\* for any other): quote 5 exists, quote 99 does not.  int(argument):
QuoteArguments == {"5", "99"}
QuoteId(argument) == IF argument = "5" THEN 5 ELSE IF argument = "6" THEN 6 ELSE 99

\* The quote shown by the message of the bot that users react to.
ReactedQuotes == {5}

\* reaction.emoji: thumbs up, thumbs down, another emoji.
Emojis == {"thumbsup", "thumbsdown", "heart"}

QuoteKey(q) == [action |-> "quote.vote", sections |-> <<q>>]

\* The (action, *sections) a call checks and records: aq is limited per user, the
\* votes per user and quote.
CallKey(c) ==
    IF c.handler = "add_quote" THEN [action |-> "quote.add", sections |-> <<>>]
    ELSE QuoteKey(c.quote)

\* latest_quote.id + 1 of quotes.add_quote
NewQuoteId == (CHOOSE q \in DOMAIN quote_score : \A x \in DOMAIN quote_score : x <= q) + 1

\* The amount the handler passes to quotes.modify_quote_score.
Amount(c) ==
    IF \/ c.handler = "upvote_quote"
       \/ (c.handler = "on_reaction_add" /\ c.emoji = "thumbsup")
       \/ (c.handler = "on_reaction_remove" /\ c.emoji = "thumbsdown")
    THEN 1 ELSE -1

\* A call that records whether it is rate-limited or not.
RecordsAlways(c) == TRUE

\* From the is_rate_limited check to the handler's next await: a rate-limited call
\* returns; on_reaction_add with another emoji goes on to add_emoji_vote without
\* recording; every other call records and awaits its store write
\* (quotes.add_quote for aq, modify_quote_score for the votes).
Records(c) ==
    /\ ~is_rate_limited(c.user, CallKey(c))
    /\ ~(c.handler = "on_reaction_add" /\ c.emoji \notin {"thumbsup", "thumbsdown"})

AfterCheck(c) ==
    IF is_rate_limited(c.user, CallKey(c)) THEN [c EXCEPT !.pc = "returned", !.limited = TRUE]
    ELSE IF c.handler = "add_quote" THEN [c EXCEPT !.pc = "add"]
    ELSE IF c.handler = "on_reaction_add" /\ c.emoji \notin {"thumbsup", "thumbsdown"}
         THEN [c EXCEPT !.pc = "emoji_vote"]
    ELSE [c EXCEPT !.pc = "modify"]

\* The check and the record of call c, made in one uninterrupted run.
\* A handler that leaves the record for after its store write: nothing is recorded
\* before the await.
CheckOnly(c) == UNCHANGED <<rate_limits, last_recorded, passed>>

CheckAndRecord(c) ==
    /\ rate_limits' = IF Records(c) THEN record_action(c.user, CallKey(c)) ELSE rate_limits
    /\ last_recorded' = IF Records(c)
                        THEN [last_recorded EXCEPT ![CallKey(c)][c.user] = now]
                        ELSE last_recorded
    /\ passed' = IF Records(c) /\ c.handler # "add_quote"
                 THEN Append(passed, [user |-> c.user, quote |-> c.quote, time |-> now])
                 ELSE passed

\* What +q, -q and aq reply.
QuoteReplyText(c) ==
    IF c.pc = "reply_missing"
    THEN <<"Quote", "SP", "with", "SP", "id", "SP", ToString(c.quote), "SP", "does", "SP",
           "not", "SP", "exist">>
    ELSE IF c.handler = "add_quote"
    THEN <<"Quote", "SP", "**#", ToString(c.quote), "**", "SP", "has", "SP", "been", "SP",
           "added.">>
    ELSE <<"Popularity", "SP", "of", "SP", "quote", "SP", ToString(c.quote), "SP", "has", "SP",
           IF c.handler = "upvote_quote" THEN "increased." ELSE "decreased.">>

InitQuote ==
    /\ irc_bridge = "IrcBridge"
    /\ connected = TRUE
    /\ ready = 0
    /\ emoji_votes = <<>>
    /\ emoji_deltas = <<>>
    /\ message_listeners = <<"on_discord_message">>
    /\ gateway = <<>>
    /\ message = NoMessage
    /\ task = <<>>
    /\ on_message = "idle"
    /\ raised_with = 0
    /\ retrieved = {}
    /\ irc_event = NoEvent
    /\ relay = "idle"
    /\ call = NoCall
    /\ dispatcher = "idle"
    /\ handler = "none"
    /\ channel_bridge = "None"
    /\ send_call = NoSend
    /\ send = "idle"
    /\ send_task = <<>>
    /\ irc_log = <<>>
    /\ discord_log = <<>>
    /\ invoked = <<>>
    /\ votes_stored = <<>>
    /\ reactions = {}
    /\ votes_handed = <<>>
    /\ QuoteIdle
    /\ ObjectsIdle
    /\ rate_limits = NoRateLimits
    /\ now = 0
    /\ duration = [a \in ConfiguredActions |-> MaxDuration]
    /\ last_recorded = NeverRecorded

\* upvote_quote or downvote_quote is called with a digit argument: it awaits
\* quotes.get_quote.
QuoteCommandBy(users) ==
    /\ Len(quote_calls) < MaxCalls
    /\ \E h \in {"upvote_quote", "downvote_quote"}, u \in users, a \in QuoteArguments :
         quote_calls' = Append(quote_calls,
             [handler |-> h, user |-> u, quote |-> QuoteId(a), emoji |-> "none",
              pc |-> "get_quote", limited |-> FALSE])
    /\ UNCHANGED <<storeVars, bridgeVars, fanoutVars, relayVars, dispatchVars, sendVars, logVars, rateVars,
                   quote_score, passed, objectVars>>

QuoteCommand == QuoteCommandBy(RateUsers)

\* on_reaction_add for a reaction by user u on a message of the bot that shows
\* quote q: the check, and the record, come before its first await.
OnReactionAddBy(users) ==
    /\ Len(quote_calls) < MaxCalls
    /\ \E u \in users, q \in ReactedQuotes, e \in Emojis :
         LET c == [handler |-> "on_reaction_add", user |-> u, quote |-> q, emoji |-> e,
                   pc |-> "check", limited |-> FALSE]
         IN  /\ quote_calls' = Append(quote_calls, AfterCheck(c))
             /\ CheckAndRecord(c)
    /\ UNCHANGED <<storeVars, bridgeVars, fanoutVars, relayVars, dispatchVars, sendVars, logVars,
                   now, duration, quote_score, objectVars>>

OnReactionAdd == OnReactionAddBy(RateUsers)

\* The members who add quotes.
QuoteAuthors == {1}

\* add_quote is called with a quote text: the check, and the record, come before
\* its first await, quotes.add_quote.
AddQuoteCommand ==
    /\ Len(quote_calls) < MaxCalls
    /\ \E u \in QuoteAuthors :
         LET c == [handler |-> "add_quote", user |-> u, quote |-> 0, emoji |-> "none",
                   pc |-> "check", limited |-> FALSE]
         IN  /\ quote_calls' = Append(quote_calls, AfterCheck(c))
             /\ CheckAndRecord(c)
    /\ UNCHANGED <<storeVars, bridgeVars, fanoutVars, relayVars, dispatchVars, sendVars, logVars,
                   now, duration, quote_score, objectVars>>

\* quotes.add_quote completes (the new row has the next id), or fails.
AddQuote ==
    /\ \E i \in 1..Len(quote_calls) :
         /\ quote_calls[i].pc = "add"
         /\ \/ /\ quote_score' = [q \in DOMAIN quote_score \cup {NewQuoteId} |->
                                      IF q = NewQuoteId THEN 0 ELSE quote_score[q]]
               /\ quote_calls' = [quote_calls EXCEPT ![i].pc = "reply", ![i].quote = NewQuoteId]
            \/ /\ quote_calls' = [quote_calls EXCEPT ![i].pc = "raised"]
               /\ UNCHANGED quote_score
    /\ UNCHANGED <<storeVars, bridgeVars, fanoutVars, relayVars, dispatchVars, sendVars, logVars, rateVars,
                   passed, objectVars>>

\* quotes.get_quote completes (the handler replies for a quote that does not exist,
\* else it goes through the check), or fails.
GetQuote ==
    /\ \E i \in 1..Len(quote_calls) :
         LET c == quote_calls[i]
         IN  /\ c.pc = "get_quote"
             /\ \/ /\ c.quote \in DOMAIN quote_score
                   /\ quote_calls' = [quote_calls EXCEPT ![i] = AfterCheck(c)]
                   /\ CheckAndRecord(c)
                \/ /\ c.quote \notin DOMAIN quote_score
                   /\ quote_calls' = [quote_calls EXCEPT ![i].pc = "reply_missing"]
                   /\ UNCHANGED <<rate_limits, last_recorded, passed>>
                \/ /\ quote_calls' = [quote_calls EXCEPT ![i].pc = "raised"]
                   /\ UNCHANGED <<rate_limits, last_recorded, passed>>
    /\ UNCHANGED <<storeVars, bridgeVars, fanoutVars, relayVars, dispatchVars, sendVars, logVars,
                   now, duration, quote_score, objectVars>>

\* quotes.modify_quote_score completes (+q and -q go on to reply, on_reaction_add
\* returns), or fails.
ModifyQuoteScore ==
    /\ \E i \in 1..Len(quote_calls) :
         LET c == quote_calls[i]
         IN  /\ c.pc = "modify"
             /\ \/ /\ quote_score' = [quote_score EXCEPT ![c.quote] = @ + Amount(c)]
                   /\ quote_calls' = [quote_calls EXCEPT ![i].pc =
                          IF c.handler \in {"on_reaction_add", "on_reaction_remove"}
                          THEN "returned" ELSE "reply"]
                \/ /\ quote_calls' = [quote_calls EXCEPT ![i].pc = "raised"]
                   /\ UNCHANGED quote_score
    /\ UNCHANGED <<storeVars, bridgeVars, fanoutVars, relayVars, dispatchVars, sendVars, logVars, rateVars,
                   passed, objectVars>>

\* message.channel.send(reply) of +q, -q or aq returns, or raises.
QuoteReply ==
    /\ \E i \in 1..Len(quote_calls) :
         LET c == quote_calls[i]
         IN  /\ c.pc \in {"reply", "reply_missing"}
             /\ \/ /\ discord_log' = Append(discord_log,
                          [content |-> QuoteReplyText(c), embed |-> NoEmbed])
                   /\ quote_calls' = [quote_calls EXCEPT ![i].pc = "returned"]
                \/ /\ quote_calls' = [quote_calls EXCEPT ![i].pc = "raised"]
                   /\ UNCHANGED discord_log
    /\ UNCHANGED <<storeVars, bridgeVars, fanoutVars, relayVars, dispatchVars, sendVars, irc_log, invoked,
                   votes_stored, reactions, votes_handed, rateVars, quote_score, passed,
                   objectVars>>

\* user_votes.add_emoji_vote, which on_reaction_add awaits for another emoji,
\* completes or fails.
EmojiVote ==
    /\ \E i \in 1..Len(quote_calls) :
         /\ quote_calls[i].pc = "emoji_vote"
         /\ \E o \in {"returned", "raised"} : quote_calls' = [quote_calls EXCEPT ![i].pc = o]
    /\ UNCHANGED <<storeVars, bridgeVars, fanoutVars, relayVars, dispatchVars, sendVars, logVars, rateVars,
                   quote_score, passed, objectVars>>

\* A second passes; the clock of these behaviours runs until the window of a vote
\* recorded at the start has lapsed.
QuoteTick ==
    /\ now < MaxDuration
    /\ now' = now + 1
    /\ UNCHANGED <<storeVars, bridgeVars, fanoutVars, relayVars, dispatchVars, sendVars, logVars,
                   rate_limits, duration, last_recorded, quoteVars, objectVars>>

NextQuote ==
    \/ QuoteCommand
    \/ OnReactionAdd
    \/ GetQuote
    \/ ModifyQuoteScore
    \/ QuoteReply
    \/ EmojiVote
    \/ QuoteTick

SpecQuote == InitQuote /\ [][NextQuote]_vars

\* The commands and reactions of the members who add quotes: aq with the votes.
AuthorQuoteCommand == QuoteCommandBy(QuoteAuthors)

AuthorReactionAdd == OnReactionAddBy(QuoteAuthors)

NextAuthor ==
    \/ AuthorQuoteCommand
    \/ AddQuoteCommand
    \/ AddQuote
    \/ AuthorReactionAdd
    \/ GetQuote
    \/ ModifyQuoteScore
    \/ QuoteReply
    \/ EmojiVote
    \/ QuoteTick

SpecAuthor == InitQuote /\ [][NextAuthor]_vars

-----------------------------------------------------------------------------
(* GenUser: the objects constructed, each from an IRC nickname or a Discord user.
   The class defines neither __eq__ nor __hash__, so both are object's: two
   references are equal exactly when they are the same object. *)

\* IRC nicknames and Discord users a GenUser is made from; "alice" is also the
\* display name of Discord user 1.
IrcNicknames == {"carol", "alice"}

\* hash(irc_user)
StrHash(nick) == IF nick = "carol" THEN 1001 ELSE 1002

\* GenUser.__init__(irc_user=..., discord_user=...): the attributes it sets; origin
\* is history, the identity the object was made from.
GenUser(irc_user, discord_user) ==
    IF irc_user # "None"
    THEN [id |-> StrHash(irc_user), display_name |-> irc_user, bot |-> FALSE,
          mention |-> irc_user, origin |-> <<"irc", irc_user>>]
    ELSE [id |-> discord_user, display_name |-> DisplayName(discord_user),
          bot |-> IsBot(discord_user), mention |-> Mention(discord_user),
          origin |-> <<"discord", ToString(discord_user)>>]

\* a == b and hash(a) for the objects at places i and j of gen_users: object.__eq__
\* and object.__hash__, which go by the object's identity.
GenUserEq(i, j) == i = j
GenUserHash(i) == i

\* A GenUser is constructed.
NewGenUser ==
    /\ Len(gen_users) < MaxObjects
    /\ \/ \E nick \in IrcNicknames : gen_users' = Append(gen_users, GenUser(nick, 0))
       \/ \E u \in Members : gen_users' = Append(gen_users, GenUser("None", u))
    /\ UNCHANGED <<storeVars, bridgeVars, fanoutVars, relayVars, dispatchVars, sendVars, logVars, rateVars,
                   quoteVars, gen_message, add_reaction, countdown>>

NextUser == NewGenUser

SpecUser == Init /\ [][NextUser]_vars

-----------------------------------------------------------------------------
(* GenMessage.add_reaction, for a message that wraps a Discord message and for one
   made from IRC. *)

\* The reaction strings handlers pass.
ReactionTokens == {"question", "check", "cross"}

\* `if self.discord_message:` (UsesNativeAlways: the test taken as true).
UsesNativeAlways(gm) == TRUE
UsesNative(gm) == gm.discord_message # "None"

\* f"{self.author.mention}: {reaction}"
ReactionReply(gm, reaction) ==
    [content |-> <<gm.author, ":", "SP", reaction>>, embed |-> NoEmbed]

\* The GenMessage objects: GenMessage(irc_bridge, discord_message=m) for a message of
\* a member, with the bridge None or made; GenMessage(irc_bridge, author=who), which
\* needs the bridge.
InitReaction ==
    /\ \/ /\ irc_bridge \in {"None", "IrcBridge"}
          /\ \E u \in {1, 2} : gen_message = [discord_message |-> "Message", author |-> Mention(u)]
       \/ /\ irc_bridge = "IrcBridge"
          /\ \E who \in IrcNicknames \cup {"dave"} :
               gen_message = [discord_message |-> "None", author |-> who]
    /\ connected = FALSE
    /\ ready = 0
    /\ emoji_votes = <<>>
    /\ emoji_deltas = <<>>
    /\ message_listeners = IF irc_bridge = "None" THEN <<>> ELSE <<"on_discord_message">>
    /\ gateway = <<>>
    /\ message = NoMessage
    /\ task = <<>>
    /\ on_message = "idle"
    /\ raised_with = 0
    /\ retrieved = {}
    /\ irc_event = NoEvent
    /\ relay = "idle"
    /\ call = NoCall
    /\ dispatcher = "idle"
    /\ handler = "none"
    /\ channel_bridge = irc_bridge
    /\ send_call = NoSend
    /\ send = "idle"
    /\ send_task = <<>>
    /\ irc_log = <<>>
    /\ discord_log = <<>>
    /\ invoked = <<>>
    /\ votes_stored = <<>>
    /\ reactions = {}
    /\ votes_handed = <<>>
    /\ QuoteIdle
    /\ gen_users = <<>>
    /\ add_reaction = [pc |-> "idle", reaction |-> "none"]
    /\ countdown = NoCountdown
    /\ RateIdle

\* message.add_reaction(reaction) is called: it awaits the Discord message's own
\* add_reaction, or channel.send of the textual reply.
GenMessageAddReaction ==
    /\ add_reaction.pc = "idle"
    /\ \E r \in ReactionTokens :
         IF UsesNative(gen_message)
         THEN /\ add_reaction' = [pc |-> "await_native", reaction |-> r]
              /\ UNCHANGED sendVars
         ELSE /\ add_reaction' = [pc |-> "await_send", reaction |-> r]
              /\ StartSend(channel_bridge, ReactionReply(gen_message, r))
    /\ UNCHANGED <<storeVars, bridgeVars, fanoutVars, relayVars, dispatchVars, logVars, rateVars, quoteVars,
                   gen_users, gen_message, countdown>>

\* discord_message.add_reaction completes, or fails.
NativeReaction ==
    /\ add_reaction.pc = "await_native"
    /\ \/ /\ reactions' = reactions \cup {add_reaction.reaction}
          /\ add_reaction' = [add_reaction EXCEPT !.pc = "returned"]
       \/ /\ add_reaction' = [add_reaction EXCEPT !.pc = "raised"]
          /\ UNCHANGED reactions
    /\ UNCHANGED <<storeVars, bridgeVars, fanoutVars, relayVars, dispatchVars, sendVars, irc_log, discord_log,
                   invoked, votes_stored, votes_handed, rateVars, quoteVars, gen_users, gen_message, countdown>>

\* channel.send has returned or raised: add_reaction, which awaits it, does the same.
AddReactionResume ==
    /\ add_reaction.pc = "await_send"
    /\ send \in {"returned", "raised"}
    /\ add_reaction' = [add_reaction EXCEPT !.pc = send]
    /\ UNCHANGED <<storeVars, bridgeVars, fanoutVars, relayVars, dispatchVars, sendVars, logVars, rateVars,
                   quoteVars, gen_users, gen_message, countdown>>

NextReaction ==
    \/ GenMessageAddReaction
    \/ NativeReaction
    \/ AddReactionResume
    \/ IrcReply
    \/ DiscordSend

SpecReaction == InitReaction /\ [][NextReaction]_vars

-----------------------------------------------------------------------------
(* Reactions on the bot's message of a quote: members add and remove thumbs-up and
   thumbs-down reactions, and the gateway calls on_reaction_add and
   on_reaction_remove. *)

ThumbEmojis == {"thumbsup", "thumbsdown"}

\* A member adds a reaction the message does not carry from them yet:
\* on_reaction_add runs its check, and the record, up to its first await.
ReactionAdded ==
    /\ Len(quote_calls) <= MaxCalls
    /\ \E u \in RateUsers, q \in ReactedQuotes, e \in ThumbEmojis :
         LET c == [handler |-> "on_reaction_add", user |-> u, quote |-> q, emoji |-> e,
                   pc |-> "check", limited |-> FALSE]
         IN  /\ [user |-> u, emoji |-> e] \notin reactions
             /\ reactions' = reactions \cup {[user |-> u, emoji |-> e]}
             /\ quote_calls' = Append(quote_calls, AfterCheck(c))
             /\ CheckAndRecord(c)
    /\ UNCHANGED <<storeVars, bridgeVars, fanoutVars, relayVars, dispatchVars, sendVars, irc_log, discord_log,
                   invoked, votes_stored, votes_handed, now, duration, quote_score, objectVars>>

\* A member removes a reaction of theirs: on_reaction_remove goes to
\* modify_quote_score without a look at the rate limits.
ReactionRemoved ==
    /\ Len(quote_calls) <= MaxCalls
    /\ \E u \in RateUsers, q \in ReactedQuotes, e \in ThumbEmojis :
         /\ [user |-> u, emoji |-> e] \in reactions
         /\ reactions' = reactions \ {[user |-> u, emoji |-> e]}
         /\ quote_calls' = Append(quote_calls,
                [handler |-> "on_reaction_remove", user |-> u, quote |-> q, emoji |-> e,
                 pc |-> "modify", limited |-> FALSE])
    /\ UNCHANGED <<storeVars, bridgeVars, fanoutVars, relayVars, dispatchVars, sendVars, irc_log, discord_log,
                   invoked, votes_stored, votes_handed, rateVars, quote_score, passed, objectVars>>

NextToggle ==
    \/ ReactionAdded
    \/ ReactionRemoved
    \/ ModifyQuoteScore
    \/ QuoteTick

SpecToggle == InitQuote /\ [][NextToggle]_vars

-----------------------------------------------------------------------------
(* The bridge alone: on_ready events, the IRC connection, messages of members in
   the Discord channels, IRC events, and the bot's own posts coming back. *)

BridgeContents == {<<"foo">>, <<"!", "hello">>, <<"<@2>", "++">>}

\* A member's message arrives from the gateway.
OnBridgeMessage ==
    /\ Quiescent
    /\ \E c \in BridgeContents, a \in {1, 2}, ch \in Channels :
         Fanout([content |-> c, author |-> a, channel |-> ch, relayed |-> <<>>])
    /\ UNCHANGED <<storeVars, quoteVars, objectVars, bridgeVars, rateVars>>

NextBridge ==
    \/ OnReady
    \/ IrcConnection
    \/ OnBridgeMessage
    \/ OnOwnMessage
    \/ StoreVotes
    \/ AddReaction
    \/ RecordMessage
    \/ ListenerSend
    \/ IrcOnMessage
    \/ IrcOnCtcpAction
    \/ RelaySend

SpecBridge == Init /\ [][NextBridge]_vars

-----------------------------------------------------------------------------
(* user_votes.add_emoji_vote, as on_reaction_add calls it with delta +1 and
   on_reaction_remove with delta -1.  The table has one row for each (guild, user,
   emoji), which is what ON DUPLICATE KEY tells apart; there is one guild. *)

\* reaction.emoji: a unicode emoji (a str), a custom emoji of the guild
\* (discord.Emoji) or a custom emoji the client does not know (discord.PartialEmoji).
EmojiKinds == {"heart", "custom", "partial"}

EmojiDeltas == {1, -1}

\* INSERT ... VALUES (..., 1) ON DUPLICATE KEY UPDATE amount = amount + delta: a new
\* row is inserted with amount 1, an existing row has delta added.
Upsert(table, key, delta) ==
    [k \in DOMAIN table \cup {key} |->
        IF k # key THEN table[k]
        ELSE IF key \in DOMAIN table THEN table[key] + delta ELSE 1]

\* add_emoji_vote(user, guild, emoji, delta): returns for a PartialEmoji, else the
\* statement is executed and committed.
AddEmojiVote ==
    /\ Len(emoji_deltas) < MaxCalls
    /\ \E u \in RateUsers, e \in EmojiKinds, d \in EmojiDeltas :
         /\ emoji_deltas' = Append(emoji_deltas, [user |-> u, emoji |-> e, delta |-> d])
         /\ emoji_votes' = IF e = "partial" THEN emoji_votes
                           ELSE Upsert(emoji_votes, [user |-> u, emoji |-> e], d)
    /\ UNCHANGED <<bridgeVars, fanoutVars, relayVars, dispatchVars, sendVars, logVars, rateVars,
                   quoteVars, objectVars>>

NextEmoji ==
    \/ AddEmojiVote

SpecEmoji == Init /\ [][NextEmoji]_vars

-----------------------------------------------------------------------------
(* The q command with a digit argument: read_quote. *)

ReadArguments == {"5", "6", "99"}

\* format_quote(quote): the header line and the quote's text in a fenced block.
format_quote(q) ==
    <<"Quote", "SP", "**#", ToString(q), "**", "SP", "(rated", "SP", ToString(quote_score[q]),
      "):", "NL", "TICK", "TICK", "TICK", "text", "TICK", "TICK", "TICK">>

DoesNotExist(q) ==
    <<"Quote", "SP", "with", "SP", "id", "SP", ToString(q), "SP", "does", "SP", "not", "SP",
      "exist">>

\* read_quote is called with a digit argument: it awaits the gather of get_quote
\* and get_latest_quote.
ReadQuote ==
    /\ Len(quote_calls) < MaxCalls
    /\ \E u \in RateUsers, a \in ReadArguments :
         quote_calls' = Append(quote_calls,
            [handler |-> "read_quote", user |-> u, quote |-> QuoteId(a), emoji |-> "none",
             pc |-> "get_quote", limited |-> FALSE])
    /\ UNCHANGED <<storeVars, bridgeVars, fanoutVars, relayVars, dispatchVars, sendVars, logVars, rateVars,
                   quote_score, passed, objectVars>>

\* The gather completes, with the quote or with None, or fails.
ReadQuoteGather ==
    /\ \E i \in 1..Len(quote_calls) :
         LET c == quote_calls[i]
         IN  /\ c.handler = "read_quote"
             /\ c.pc = "get_quote"
             /\ \E p \in {IF c.quote \in DOMAIN quote_score THEN "reply" ELSE "reply_missing",
                           "raised"} :
                  quote_calls' = [quote_calls EXCEPT ![i].pc = p]
    /\ UNCHANGED <<storeVars, bridgeVars, fanoutVars, relayVars, dispatchVars, sendVars, logVars, rateVars,
                   quote_score, passed, objectVars>>

\* A channel.send of read_quote completes, or fails.  After the reply for a quote
\* that does not exist the handler goes on to format_quote(None), which raises
\* AttributeError on quote.id.
ReadQuoteSend ==
    /\ \E i \in 1..Len(quote_calls) :
         LET c == quote_calls[i]
         IN  /\ c.handler = "read_quote"
             /\ c.pc \in {"reply", "reply_missing"}
             /\ \/ /\ c.pc = "reply"
                   /\ discord_log' = Append(discord_log,
                          [content |-> format_quote(c.quote), embed |-> NoEmbed])
                   /\ quote_calls' = [quote_calls EXCEPT ![i].pc = "returned"]
                \/ /\ c.pc = "reply_missing"
                   /\ discord_log' = Append(discord_log,
                          [content |-> DoesNotExist(c.quote), embed |-> NoEmbed])
                   /\ quote_calls' = [quote_calls EXCEPT ![i].pc = "raised"]
                \/ /\ quote_calls' = [quote_calls EXCEPT ![i].pc = "raised"]
                   /\ UNCHANGED discord_log
    /\ UNCHANGED <<storeVars, bridgeVars, fanoutVars, relayVars, dispatchVars, sendVars, irc_log, invoked,
                   votes_stored, reactions, votes_handed, rateVars, quote_score, passed,
                   objectVars>>

NextRead ==
    \/ ReadQuote
    \/ ReadQuoteGather
    \/ ReadQuoteSend

SpecRead == InitQuote /\ [][NextRead]_vars

-----------------------------------------------------------------------------
(* The countdown handler.  An argument is a string of characters: ASCII digits, a
   letter, and SUP2 for a superscript two, which str.isdigit accepts and int
   rejects. *)

AsciiDigits == {"0", "1", "2", "3", "4", "5", "6", "7", "8", "9"}

CountdownArguments ==
    { <<>>, <<"a">>, <<"SUP2">>, <<"0">>, <<"1">>, <<"3">>, <<"0", "3">>, <<"1", "5">>,
      <<"1", "6">> }

\* str.isdigit(): not empty and every character a digit.
isdigit(s) == s # <<>> /\ \A k \in 1..Len(s) : s[k] \in AsciiDigits \cup {"SUP2"}

\* int(s) raises ValueError for a digit that is not a decimal one.
IntRaises(s) == \E k \in 1..Len(s) : s[k] \notin AsciiDigits

DigitValue(c) == CHOOSE d \in 0..9 : ToString(d) = c

\* int(s) of a string of decimal digits
RECURSIVE int(_)
int(s) == IF s = <<>> THEN 0 ELSE 10 * int(SubSeq(s, 1, Len(s) - 1)) + DigitValue(s[Len(s)])

\* f'{i}' of a positive integer
RECURSIVE str(_)
str(n) == IF n < 10 THEN <<ToString(n)>> ELSE str(n \div 10) \o <<ToString(n % 10)>>

MinCountdown == 1
MaxCountdown == 15

\* A range check that forgets the lower end.
OutOfRangeAbove(n) == n > MaxCountdown

\* countdown_amount < 1 or countdown_amount > 15
OutOfRange(n) == n < MinCountdown \/ n > MaxCountdown

\* The loop goes on to its next i, or leaves for the last send.
NextIteration(c) ==
    IF c.i - 1 > 0
    THEN [c EXCEPT !.i = c.i - 1, !.send = "pending", !.sleep = "pending"]
    ELSE [c EXCEPT !.i = 0, !.pc = "done_send", !.send = "none", !.sleep = "none"]

\* countdown is called: the checks of the argument, and the first gather of the loop
\* (or, for an empty range, the last send).
CountdownCommand ==
    /\ countdown.pc \in {"idle", "returned", "raised"}
    /\ \E a \in CountdownArguments :
         countdown' =
            IF ~isdigit(a) THEN [NoCountdown EXCEPT !.argument = a, !.pc = "returned"]
            ELSE IF IntRaises(a) THEN [NoCountdown EXCEPT !.argument = a, !.pc = "raised"]
            ELSE IF OutOfRange(int(a)) THEN [NoCountdown EXCEPT !.argument = a, !.pc = "returned"]
            ELSE NextIteration([NoCountdown EXCEPT !.argument = a, !.i = int(a) + 1,
                                                   !.pc = "gather"])
    /\ discord_log' = <<>>
    /\ UNCHANGED <<storeVars, bridgeVars, fanoutVars, relayVars, dispatchVars, sendVars, irc_log, invoked,
                   votes_stored, reactions, votes_handed, rateVars, quoteVars, gen_users,
                   gen_message, add_reaction>>

\* message.channel.send(f'{i}') completes, or fails and the gather raises.
CountdownSend ==
    /\ countdown.pc = "gather"
    /\ countdown.send = "pending"
    /\ \/ /\ discord_log' = Append(discord_log, [content |-> str(countdown.i), embed |-> NoEmbed])
          /\ countdown' = IF countdown.sleep = "done" THEN NextIteration(countdown)
                          ELSE [countdown EXCEPT !.send = "done"]
       \/ /\ countdown' = [countdown EXCEPT !.pc = "raised"]
          /\ UNCHANGED discord_log
    /\ UNCHANGED <<storeVars, bridgeVars, fanoutVars, relayVars, dispatchVars, sendVars, irc_log, invoked,
                   votes_stored, reactions, votes_handed, rateVars, quoteVars, gen_users,
                   gen_message, add_reaction>>

\* asyncio.sleep(1) completes.
CountdownSleep ==
    /\ countdown.pc = "gather"
    /\ countdown.sleep = "pending"
    /\ countdown' = IF countdown.send = "done" THEN NextIteration(countdown)
                    ELSE [countdown EXCEPT !.sleep = "done"]
    /\ UNCHANGED <<storeVars, bridgeVars, fanoutVars, relayVars, dispatchVars, sendVars, logVars, rateVars,
                   quoteVars, gen_users, gen_message, add_reaction>>

\* message.channel.send('DONE!') completes, or fails.
CountdownDone ==
    /\ countdown.pc = "done_send"
    /\ \/ /\ discord_log' = Append(discord_log, [content |-> <<"DONE!">>, embed |-> NoEmbed])
          /\ countdown' = [countdown EXCEPT !.pc = "returned"]
       \/ /\ countdown' = [countdown EXCEPT !.pc = "raised"]
          /\ UNCHANGED discord_log
    /\ UNCHANGED <<storeVars, bridgeVars, fanoutVars, relayVars, dispatchVars, sendVars, irc_log, invoked,
                   votes_stored, reactions, votes_handed, rateVars, quoteVars, gen_users,
                   gen_message, add_reaction>>

NextCountdown ==
    \/ CountdownCommand
    \/ CountdownSend
    \/ CountdownSleep
    \/ CountdownDone

\* The event loop resumes a handler whose awaitable is ready, and a send or a sleep
\* that was started completes (the send possibly by failing).
SpecCountdown ==
    /\ Init
    /\ [][NextCountdown]_vars
    /\ WF_vars(CountdownSend)
    /\ WF_vars(CountdownSleep)
    /\ WF_vars(CountdownDone)

-----------------------------------------------------------------------------
(* Vote messages: on_message for messages that hold vote tokens, code regions and
   self-votes, written by members and by the bot. *)

VoteContents ==
    { <<"<@2>", "++">>,
      <<"<@2>", "++", "SP", "<@2>", "++", "SP", "<@2>", "--">>,
      <<"<@1>", "++", "SP", "<@2>", "++">>,
      <<"<@2>", "++", "SP", "<@2>", "--">>,
      <<"<@1>", "++", "<@1>", "--", "SP", "<@2>", "--">>,
      <<"<@1>", "++", "SP", "<@1>", "--">>,
      <<"<@1>", "--">>,
      <<"<@3>", "++", "SP", "<@2>", "--">>,
      <<"TICK", "<@2>", "++", "TICK">>,
      <<"TICK", "NL", "<@2>", "++", "NL", "TICK">>,
      <<"TICK", "TICK", "TICK", "<@2>", "++", "TICK", "TICK", "TICK">>,
      <<"TICK", "TICK", "TICK", "NL", "<@2>", "++", "NL", "TICK", "TICK", "TICK">>,
      <<"TICK", "TICK", "TICK", "NL", "TICK", "<@2>", "++", "NL", "TICK", "TICK", "TICK">>,
      <<"<@2>", "--", "SP", "TICK", "<@2>", "++", "TICK">>,
      <<"TICK", "a", "TICK", "SP", "<@2>", "++", "SP", "TICK", "b", "TICK">>,
      <<"TICK", "TICK", "TICK", "a", "TICK", "TICK", "TICK", "SP", "<@2>", "++", "SP",
        "TICK", "TICK", "TICK", "b", "TICK", "TICK", "TICK">>,
      <<"foo">> }

\* A message with vote content arrives from the gateway, written by a member or by
\* a bot.
OnVoteMessage ==
    /\ Quiescent
    /\ \E c \in VoteContents, a \in Members :
         Fanout([content |-> c, author |-> a, channel |-> "other", relayed |-> <<>>])
    /\ UNCHANGED <<storeVars, quoteVars, objectVars, bridgeVars, rateVars>>

NextVotes ==
    \/ OnVoteMessage
    \/ StoreVotes
    \/ AddReaction
    \/ RecordMessage

SpecVotes == Init /\ [][NextVotes]_vars

-----------------------------------------------------------------------------
(* The claims *)

\* The first whitespace-delimited token of a text, and what follows its delimiter.
FirstWhitespace(s) ==
    IF \E i \in 1..Len(s) : s[i] \in Whitespace
    THEN CHOOSE i \in 1..Len(s) : s[i] \in Whitespace /\ \A j \in 1..(i - 1) : s[j] \notin Whitespace
    ELSE 0

FirstToken(s) == IF FirstWhitespace(s) = 0 THEN s ELSE SubSeq(s, 1, FirstWhitespace(s) - 1)

AfterFirstToken(s) ==
    IF FirstWhitespace(s) = 0 THEN <<>> ELSE SubSeq(s, FirstWhitespace(s) + 1, Len(s))

\* The one invocation a text calls for: the handler registered under its first
\* token, with the trimmed remainder.
Invocation(s) == [handler |-> commands[FirstToken(s)], argument |-> Strip(AfterFirstToken(s))]

\* C1: when record_message has failed for a message whose trigger is registered,
\* then, once nothing of that message is in flight, the trigger's handler has run to
\* completion and its reply has been delivered.
C1_FanoutFaultIsolation ==
    (/\ message # NoMessage
     /\ task[StatsTask] = "raised"
     /\ DiscordTrigger(message) \in DOMAIN commands
     /\ Quiescent)
    => /\ \E i \in 1..Len(invoked) : invoked[i].handler = commands[DiscordTrigger(message)]
       /\ handler = "returned"
       /\ discord_log # <<>>

\* C2: a handler's exception stops at the dispatcher: when the handler has raised,
\* the dispatcher that awaited it has not.
C2_HandlerFaultCaught == handler = "raised" => dispatcher # "raised"

\* C3: for a message whose trigger is registered, the dispatcher starts the matched
\* handler whatever becomes of the recording of the command.
C3_HandlerStartedDespiteRecording ==
    (/\ message # NoMessage
     /\ DiscordTrigger(message) \in DOMAIN commands
     /\ task[DispatchTask] \in {"done", "raised"})
    => \E i \in 1..Len(invoked) : invoked[i].handler = commands[DiscordTrigger(message)]

\* C4: on_message has returned or raised only when every task of its gather has
\* returned or raised.
C4_JointCompletion ==
    on_message \in {"returned", "raised"}
    => \A i \in 1..Len(task) : task[i] \in {"done", "raised"}

\* C5: the exception of every failed branch reaches on_message's caller; none is
\* dropped.
C5_NoFaultDropped ==
    \A i \in 1..Len(task) : task[i] = "raised" => (raised_with = i /\ i \notin retrieved)

\* C6: a message of the IRC room whose first token is a registered trigger has, once
\* the bridge's relay of it is handled and nothing is in flight, caused the
\* invocation the same text causes on Discord.
C6_TransportEquivalence ==
    (/\ message # NoMessage
     /\ message.relayed # <<>>
     /\ FirstToken(message.relayed) \in DOMAIN commands
     /\ Quiescent)
    => \E i \in 1..Len(invoked) : invoked[i] = Invocation(message.relayed)

\* C7: once a send has settled, an endpoint that did not itself fail has received
\* the content, whatever became of the other endpoint (failed, or not there).
IrcEndpointFailed == channel_bridge = "None" \/ (send_task # <<>> /\ send_task[1] = "raised")

DiscordEndpointFailed == send_task # <<>> /\ send_task[2] = "raised"

SendSettled == send # "idle" /\ \A i \in 1..Len(send_task) : send_task[i] # "running"

C7_IndependentDelivery ==
    SendSettled =>
        /\ (IrcEndpointFailed /\ ~DiscordEndpointFailed) => discord_log = <<send_call>>
        /\ (DiscordEndpointFailed /\ ~IrcEndpointFailed) => irc_log = <<IrcContent(send_call)>>

\* C8: a dispatcher, given a text, invokes a handler exactly when the text's first
\* token is a registered key, and then exactly that key's handler, once, with the
\* trimmed remainder.
Dispatched(s) ==
    IF FirstToken(s) \in DOMAIN commands THEN invoked = <<Invocation(s)>> ELSE invoked = <<>>

C8_DispatchExact ==
    /\ (message # NoMessage /\ Quiescent) => Dispatched(clean_content(message.content))
    /\ (call # NoCall /\ dispatcher # "raised") => Dispatched(call.text)

\* C9: for a registered trigger followed by a space, a tab or a newline and more
\* text, process_irc_message (when it does not raise) invokes the trigger's handler
\* with the trimmed remainder.
C9_SplitAtFirstWhitespace ==
    \A ws \in Whitespace :
        (/\ call # NoCall
         /\ dispatcher # "raised"
         /\ FirstWhitespace(call.text) # 0
         /\ call.text[FirstWhitespace(call.text)] = ws
         /\ FirstToken(call.text) \in DOMAIN commands)
        => invoked = <<Invocation(call.text)>>

\* C10: is_rate_limited(u, a, s) is true exactly when record_action(u, a, s) has run
\* and less than the configured duration has passed since its last run: false before
\* the first record_action, true from t up to t + d, false from t + d on.
C10_RateLimitLifecycle ==
    \A k \in RateKeys, u \in RateUsers :
        is_rate_limited(u, k)
        <=> (last_recorded[k][u] >= 0 /\ now < last_recorded[k][u] + duration[k.action])

\* C10's case: a key recorded at t is checked at t + d exactly, and is free again,
\* while another time it was still limited one second before.
C10_Witness ==
    \E k \in RateKeys, u \in RateUsers :
        /\ last_recorded[k][u] >= 0
        /\ now = last_recorded[k][u] + duration[k.action]
        /\ duration[k.action] > 1
        /\ ~is_rate_limited(u, k)

\* C11: an action without a configured duration is never rate-limited:
\* is_rate_limited returns false, without raising, for every user and scope, also
\* after record_action has run for that user, action and scope.
C11_UnconfiguredNeverLimited ==
    \A k \in RateKeys, u \in RateUsers :
        k.action \notin DOMAIN duration
            => (~is_rate_limited_raises(u, k) /\ ~is_rate_limited(u, k))

\* C12: rate-limit keys are independent: the dict of (action, *sections) holds a user
\* exactly when record_action ran for that user, action and scope, with the time of
\* the last such call, and is_rate_limited is false for a user and key never
\* recorded, whatever was recorded for other users, actions and scopes.
C12_KeysIndependent ==
    \A k \in RateKeys, u \in RateUsers :
        IF last_recorded[k][u] = -1
        THEN u \notin DOMAIN get_rate_limits(k) /\ ~is_rate_limited(u, k)
        ELSE u \in DOMAIN get_rate_limits(k) /\ get_rate_limits(k)[u] = last_recorded[k][u]

\* C12 (witness): user 1 is rate-limited for a vote on quote 5, yet not for a vote on
\* quote 6, and user 2 is not rate-limited for a vote on quote 5.
C12_Witness ==
    LET vote5 == [action |-> "quote.vote", sections |-> <<5>>]
        vote6 == [action |-> "quote.vote", sections |-> <<6>>]
    IN  /\ is_rate_limited(1, vote5)
        /\ last_recorded[vote6][1] = -1 /\ ~is_rate_limited(1, vote6)
        /\ last_recorded[vote5][2] = -1 /\ ~is_rate_limited(2, vote5)

\* C13: the check and the record of one key are atomic among concurrent handlers:
\* however +q, -q and quote reactions of one user on one quote interleave, two of
\* them that pass the is_rate_limited check (and so go on to modify the score) are
\* at least the configured duration apart.
C13_CheckRecordAtomic ==
    \A i, j \in 1..Len(passed) :
        (i < j /\ passed[i].user = passed[j].user /\ passed[i].quote = passed[j].quote)
            => passed[j].time >= passed[i].time + duration["quote.vote"]

\* C13 (witness): two calls of one user on one quote were in flight together; one
\* passed the check and awaits the score update, the other was rate-limited.
C13_Witness ==
    \E i, j \in 1..Len(quote_calls) :
        /\ i # j
        /\ quote_calls[i].user = quote_calls[j].user
        /\ quote_calls[i].quote = quote_calls[j].quote
        /\ quote_calls[i].pc = "modify"
        /\ quote_calls[j].limited
        /\ quote_calls[j].handler \in {"upvote_quote", "downvote_quote"}

\* The vote tokens of a text as vote_handler scans it, and the number of them of
\* one kind for one member.
ScannedTokens(m) == VoteCleanContent(m.content)

TokenCount(s, t, action) ==
    Cardinality({i \in 1..(Len(s) - 1) : s[i] = Mention(t) /\ s[i + 1] = action})

\* C14: the tally vote_handler hands to the vote store is one tally in one store
\* call; it holds no entry for the author, and for every other member an entry
\* exactly when the message has vote tokens for that member, whose value is the
\* number of its ++ tokens minus the number of its -- tokens.
C14_TallyIsSum ==
    votes_handed # <<>> =>
        /\ Len(votes_handed) = 1
        /\ message.author \notin DOMAIN votes_handed[1]
        /\ \A t \in Members \ {message.author} :
             LET ups == TokenCount(ScannedTokens(message), t, "++")
                 downs == TokenCount(ScannedTokens(message), t, "--")
             IN  /\ (t \in DOMAIN votes_handed[1]) <=> (ups + downs > 0)
                 /\ (t \in DOMAIN votes_handed[1]) => votes_handed[1][t] = ups - downs

\* C14 (witness): three tokens b++ b++ b-- were handed over as the one entry b: +1.
C14_Witness ==
    /\ message # NoMessage
    /\ TokenCount(message.content, 2, "++") = 2
    /\ TokenCount(message.content, 2, "--") = 1
    /\ votes_handed = <<[t \in {2} |-> 1]>>

\* The members other than the author that the scanned text holds vote tokens for.
OtherTargets(m) ==
    {t \in Members \ {m.author} :
        TokenCount(ScannedTokens(m), t, "++") + TokenCount(ScannedTokens(m), t, "--") > 0}

SelfTokens(m) ==
    TokenCount(ScannedTokens(m), m.author, "++") + TokenCount(ScannedTokens(m), m.author, "--")

\* C15: a self-vote is removed without suppressing the other votes: a message of a
\* person with vote tokens for its author and for another member hands the other
\* members' votes to the store.
C15_SelfVoteDoesNotSuppress ==
    (/\ message # NoMessage /\ message.author # BotUser
     /\ SelfTokens(message) > 0 /\ OtherTargets(message) # {})
        => /\ votes_handed # <<>>
           /\ DOMAIN votes_handed[1] = OtherTargets(message)

\* C16: a message whose vote tokens all target its author causes no store call and
\* no acknowledgement reaction, whatever the number and the signs of the tokens.
C16_OnlySelfVotes ==
    (/\ message # NoMessage
     /\ VoteMatches(message.content) # {}
     /\ \A i \in VoteMatches(message.content) : message.content[i] = Mention(message.author))
        => (votes_handed = <<>> /\ votes_stored = <<>> /\ reactions = {})

\* C16 (witness): a message of a person whose two self-votes net to zero has been
\* handled.
C16_Witness ==
    /\ message # NoMessage
    /\ message.author = 1
    /\ message.content = <<"<@1>", "++", "SP", "<@1>", "--">>
    /\ task[VoteTask] = "done"
    /\ votes_handed = <<>>

\* A place of a text lies in a code region: in a fenced block (after an odd number
\* of ``` with a ``` behind it), or, in a text without fences, in an inline span
\* (after an odd number of ` with a ` behind it).
InFencedBlock(s, i) ==
    /\ Cardinality({a \in 1..Len(s) : IsFence(s, a) /\ a + 2 < i}) % 2 = 1
    /\ \E b \in (i + 2)..Len(s) : IsFence(s, b)

InInlineSpan(s, i) ==
    /\ \A a \in 1..Len(s) : ~IsFence(s, a)
    /\ Cardinality({a \in 1..(i - 1) : s[a] = "TICK"}) % 2 = 1
    /\ \E b \in (i + 2)..Len(s) : s[b] = "TICK"

InCodeRegion(s, i) == InFencedBlock(s, i) \/ InInlineSpan(s, i)

\* C17: a mention with ++ or -- inside a fenced or inline code region, on one line
\* or on several, never contributes to the tally: a message of a person whose vote
\* tokens all lie in code regions hands nothing to the store.
C17_CodeRegionsExcluded ==
    (/\ message # NoMessage
     /\ VoteMatches(message.content) # {}
     /\ \A i \in VoteMatches(message.content) : InCodeRegion(message.content, i))
        => votes_handed = <<>>

\* The users whose messages are bot-authored.
BotAuthors == {BotUser}

\* C20: a message written by a bot never changes vote state: vote_handler returns
\* in its first step, hands nothing to the vote store and adds no reaction,
\* whatever vote tokens the text holds.
C20_BotMessagesIgnored ==
    (message # NoMessage /\ message.author \in BotAuthors)
        => /\ task[VoteTask] = "done"
           /\ votes_handed = <<>>
           /\ votes_stored = <<>>
           /\ reactions = {}

\* C20 (witness): a bot's message with a vote token for a member has been handled.
C20_Witness ==
    /\ message # NoMessage
    /\ message.author \in BotAuthors
    /\ \E i \in VoteMatches(VoteCleanContent(message.content)) : message.content[i] = Mention(2)
    /\ on_message \in {"returned", "raised"}
    /\ task[VoteTask] = "done"

\* C18: GenUser identity: two GenUser values made from the same transport identity
\* (the same IRC nickname, or the same Discord user) compare equal and hash the
\* same, and a value made from an IRC identity never equals one made from a Discord
\* identity, even with the same display name.
C18_GenUserIdentity ==
    \A i, j \in 1..Len(gen_users) :
        /\ gen_users[i].origin = gen_users[j].origin
             => (GenUserEq(i, j) /\ GenUserHash(i) = GenUserHash(j))
        /\ gen_users[i].origin[1] # gen_users[j].origin[1] => ~GenUserEq(i, j)

\* C19: GenMessage.add_reaction uses the Discord message's own reaction exactly when
\* the message wraps a Discord message (and then sends nothing), and otherwise makes
\* one channel.send call with "{author.mention}: {reaction}", which each endpoint
\* gets at most once, and adds no native reaction.
C19_ReactionOrReply ==
    add_reaction.pc # "idle" =>
        IF gen_message.discord_message # "None"
        THEN /\ send = "idle" /\ send_call = NoSend
             /\ irc_log = <<>> /\ discord_log = <<>>
             /\ add_reaction.pc = "returned" => reactions = {add_reaction.reaction}
        ELSE /\ reactions = {}
             /\ send_call = [content |-> <<gen_message.author, ":", "SP", add_reaction.reaction>>,
                              embed |-> NoEmbed]
             /\ discord_log \in {<<>>, <<send_call>>}
             /\ irc_log \in {<<>>, <<send_call.content>>}
             /\ add_reaction.pc = "returned" =>
                  (discord_log = <<send_call>> /\ irc_log = <<send_call.content>>)

\* C19 (witness): add_reaction on a message made from IRC has returned after its
\* textual reply reached both endpoints.
C19_Witness ==
    /\ gen_message.discord_message = "None"
    /\ add_reaction.pc = "returned"
    /\ discord_log = <<[content |-> <<"carol", ":", "SP", "question">>, embed |-> NoEmbed]>>

\* C21: a rate-limited command is a silent no-op: a call of aq, +q, -q or
\* on_reaction_add that finds its key rate-limited has returned, and the step in
\* which it is refused sends no reply, writes nothing to the quotes table and
\* leaves every stored timestamp as it was.
C21_RateLimitedIsNoOp ==
    /\ [](\A i \in 1..Len(quote_calls) : quote_calls[i].limited => quote_calls[i].pc = "returned")
    /\ [][\A i \in 1..Len(quote_calls') :
            (quote_calls'[i].limited /\ (i > Len(quote_calls) \/ ~quote_calls[i].limited))
                => /\ rate_limits' = rate_limits
                   /\ quote_score' = quote_score
                   /\ discord_log' = discord_log
                   /\ irc_log' = irc_log]_vars

\* C21 (witness): a call was refused after the clock had moved on from the recorded
\* timestamp of its key, which still stands.
C21_Witness ==
    \E i \in 1..Len(quote_calls) :
        /\ quote_calls[i].limited
        /\ quote_calls[i].handler = "add_quote"
        /\ last_recorded[CallKey(quote_calls[i])][quote_calls[i].user] < now
        /\ get_rate_limits(CallKey(quote_calls[i]))[quote_calls[i].user]
             = last_recorded[CallKey(quote_calls[i])][quote_calls[i].user]

\* C22: record_action keeps one timestamp per (action, user, scope) and overwrites
\* it on every call: the step in which record_action(u, k) runs leaves the time of
\* that call in the dict of k under u, whatever was there before, with the window
\* open from that call; every other user and key keeps what it had; and the key is
\* rate-limited exactly while the most recent call is less than the duration ago.
C22_RecordOverwrites ==
    /\ [](\A k \in RateKeys, u \in RateUsers :
            is_rate_limited(u, k)
            <=> (u \in DOMAIN get_rate_limits(k)
                 /\ now < last_recorded[k][u] + duration[k.action]))
    /\ [][\A k \in RateKeys, u \in RateUsers :
            IF last_recorded'[k][u] # last_recorded[k][u]
            THEN /\ u \in DOMAIN rate_limits'[k]
                 /\ rate_limits'[k][u] = now
                 /\ is_rate_limited(u, k)'
            ELSE /\ (u \in DOMAIN rate_limits'[k]) <=> (u \in DOMAIN rate_limits[k])
                 /\ u \in DOMAIN rate_limits[k] => rate_limits'[k][u] = rate_limits[k][u]]_vars

\* C22 (witness): record_action ran twice for one user and key, the second time
\* inside the window of the first; the dict holds the time of the second call only,
\* and the key is still rate-limited after the window of the first call has closed.
C22_Witness ==
    \E i, j \in 1..Len(passed) :
        /\ i < j
        /\ passed[i].user = passed[j].user
        /\ passed[i].quote = passed[j].quote /\ passed[j].quote \in Quotes
        /\ passed[i].time < passed[j].time
        /\ passed[j].time < passed[i].time + duration["quote.vote"]
        /\ get_rate_limits(QuoteKey(passed[j].quote))[passed[j].user] = passed[j].time
        /\ now >= passed[i].time + duration["quote.vote"]
        /\ is_rate_limited(passed[j].user, QuoteKey(passed[j].quote))

\* C23: the acknowledgement reaction is added to a message only after the write of
\* its votes to the store has completed: the step that adds it is taken by a
\* vote_handler resumed from add_votes with the rows stored, and a message whose
\* store write failed never carries it.
C23_AckAfterStore ==
    /\ []("check" \in reactions => votes_stored # <<>>)
    /\ []((task # <<>> /\ task[VoteTask] = "raised" /\ votes_stored = <<>>)
            => "check" \notin reactions)
    /\ [][("check" \in reactions' /\ "check" \notin reactions)
            => (task[VoteTask] = "await_react" /\ votes_stored # <<>>
                /\ votes_stored' = votes_stored)]_vars

\* C23 (witness): the votes of a message were stored, the reaction was added
\* after it, and vote_handler is done.
C23_Witness ==
    /\ task # <<>>
    /\ task[VoteTask] = "done"
    /\ votes_stored # <<>>
    /\ "check" \in reactions

\* The vote tokens of a message that lie outside every code region, and their sum
\* for one member.
OutsideTokens(m) == {i \in VoteMatches(m.content) : ~InCodeRegion(m.content, i)}

OutsideSum(m, t) ==
    Cardinality({i \in OutsideTokens(m) : m.content[i] = Mention(t) /\ m.content[i + 1] = "++"})
    - Cardinality({i \in OutsideTokens(m) : m.content[i] = Mention(t) /\ m.content[i + 1] = "--"})

\* C24: every vote token outside all code regions is counted: a message of a
\* person whose tokens outside code regions are for other members of the guild
\* hands to the store, for each of these members, the sum of the member's tokens
\* outside code regions, also when the token stands between two code regions.
C24_OutsideTokensCounted ==
    (/\ message # NoMessage /\ message.author # BotUser
     /\ OutsideTokens(message) # {}
     /\ \A i \in OutsideTokens(message) :
           MentionId(message.content[i]) \in Members \ {message.author})
        => /\ votes_handed # <<>>
           /\ \A i \in OutsideTokens(message) :
                LET t == MentionId(message.content[i])
                IN  t \in DOMAIN votes_handed[1] /\ votes_handed[1][t] = OutsideSum(message, t)

\* C27: a vote token whose id resolves to no member of the guild is ignored: a
\* message of a person with such a token and with tokens for other members does not
\* make vote_handler raise before the store write; the votes handed to the store
\* are those of the members, and a vote_handler that is done has added the
\* acknowledgement.
C27_UnresolvableIgnored ==
    (/\ message # NoMessage /\ message.author # BotUser
     /\ SelfTokens(message) = 0 /\ OtherTargets(message) # {}
     /\ \E i \in VoteMatches(ScannedTokens(message)) :
           GetMember(MentionId(ScannedTokens(message)[i])) \notin Members)
        => /\ VoteHandlerStart(message) = "await_store"
           /\ votes_handed # <<>>
           /\ DOMAIN votes_handed[1] = OtherTargets(message)
           /\ task[VoteTask] = "done" => "check" \in reactions

\* The value of a string of decimal digits, and the replies of a countdown from n.
RECURSIVE DecimalValue(_)
DecimalValue(s) ==
    IF s = <<>> THEN 0
    ELSE 10 * DecimalValue(SubSeq(s, 1, Len(s) - 1))
         + (CHOOSE d \in 0..9 : ToString(d) = s[Len(s)])

RECURSIVE CountdownReplies(_)
CountdownReplies(n) ==
    IF n = 0 THEN <<[content |-> <<"DONE!">>, embed |-> NoEmbed]>>
    ELSE <<[content |-> IF n < 10 THEN <<ToString(n)>>
                        ELSE <<ToString(n \div 10), ToString(n % 10)>>,
            embed |-> NoEmbed]>> \o CountdownReplies(n - 1)

IsPrefix(s, t) == Len(s) <= Len(t) /\ s = SubSeq(t, 1, Len(s))

CountsDown(a) ==
    /\ a # <<>>
    /\ \A k \in 1..Len(a) : a[k] \in AsciiDigits
    /\ DecimalValue(a) \in 1..15

\* C25: the countdown handler runs to completion: for an argument N in 1..15 the
\* replies sent are N, N-1, ..., 1 and then "DONE!", in that order, all of them once
\* the handler has returned; for any other argument nothing is sent; and a handler
\* that was started ends.
C25_CountdownCompletes ==
    /\ [](countdown.pc # "idle" =>
            IF CountsDown(countdown.argument)
            THEN /\ IsPrefix(discord_log, CountdownReplies(DecimalValue(countdown.argument)))
                 /\ countdown.pc = "returned"
                      => discord_log = CountdownReplies(DecimalValue(countdown.argument))
            ELSE discord_log = <<>> /\ countdown.pc \in {"returned", "raised"})
    /\ (countdown.pc \in {"gather", "done_send"}) ~> (countdown.pc \in {"returned", "raised"})

\* C25 (witness): a countdown from 15 has returned after its sixteen replies.
C25_Witness ==
    /\ countdown.pc = "returned"
    /\ countdown.argument = <<"1", "5">>
    /\ Len(discord_log) = 16
    /\ discord_log[16].content = <<"DONE!">>

\* The reactions of one kind the quote message carries.
Present(e) == Cardinality({x \in reactions : x.emoji = e})

\* C26: reaction votes are reversible: once the handlers of the reaction events on
\* the message of a quote have all returned, the score of the quote is its score
\* at the start plus the thumbs-up reactions the message carries minus the
\* thumbs-down reactions it carries, also after an add that the rate limit refused.
C26_ReactionVotesReversible ==
    (\A i \in 1..Len(quote_calls) : quote_calls[i].pc = "returned")
        => \A q \in ReactedQuotes : quote_score[q] = Present("thumbsup") - Present("thumbsdown")

\* C28: q with a digit id that matches no quote sends the one reply "Quote with id
\* <id> does not exist" and then completes: a read_quote call for such an id whose
\* reply has been delivered has returned, and nothing else was sent for it.
C28_MissingQuoteReply ==
    \A i \in 1..Len(quote_calls) :
        LET c == quote_calls[i]
        IN  (/\ c.handler = "read_quote"
             /\ c.quote \notin DOMAIN quote_score
             /\ \E k \in 1..Len(discord_log) : discord_log[k].content = DoesNotExist(c.quote)
             /\ c.pc \notin {"get_quote", "reply_missing"})
                => c.pc = "returned"

\* C29: the bridge never echoes: while a message the bot posted (a relay from IRC
\* among them) is handled, on_discord_message sends nothing to IRC; an IRC message
\* whose source is the bot's own nickname is not relayed to Discord; and the
\* handling of a message of the bot posts nothing to Discord that would come back
\* as a further event.
C29_BridgeNeverEchoes ==
    /\ []((message # NoMessage /\ message.author \in BotAuthors)
            => /\ irc_log = <<>>
               /\ \A i \in 1..(Len(task) - 3) : task[ListenerTask(i)] = "done")
    /\ []((irc_event # NoEvent /\ irc_event.source = BotNickname)
            => relay = "ignored" /\ discord_log = <<>>)
    /\ [][(message' # NoMessage /\ message'.author \in BotAuthors)
            => Len(gateway') <= Len(gateway)]_vars

\* C29 (witness): the bot's relay of an IRC message has come back from the gateway in
\* the bridged channel while the bridge is connected, and its handling has ended.
C29_Witness ==
    /\ message # NoMessage
    /\ message.author \in BotAuthors
    /\ message.relayed # <<>>
    /\ message.channel = BridgedChannel
    /\ connected
    /\ Len(task) > 3
    /\ on_message \in {"returned", "raised"}

\* C30: after any number of on_ready events there is at most one IrcBridge and
\* its on_discord_message is registered once: message_listeners holds the one
\* listener exactly when the bridge exists, and a Discord message is relayed to IRC
\* at most once.
C30_OneBridge ==
    /\ Len(message_listeners) <= 1
    /\ (irc_bridge = "IrcBridge") <=> (message_listeners = <<"on_discord_message">>)
    /\ (ready = 0) <=> (irc_bridge = "None")
    /\ message # NoMessage => Len(task) <= 4 /\ Len(irc_log) <= 1

\* C30 (witness): after a second on_ready a member's message in the bridged channel
\* has been relayed to IRC, once.
C30_Witness ==
    /\ ready >= 2
    /\ message # NoMessage
    /\ message.author \in {1, 2}
    /\ message.channel = BridgedChannel
    /\ Len(task) = 4
    /\ task[ListenerTask(1)] = "done"
    /\ Len(irc_log) = 1

\* C31: in aq, +q, -q and on_reaction_add the timestamp is recorded before the
\* store write is awaited: a call that awaits its store write has its user in the
\* dict of its key; the step in which the store write fails changes neither the
\* quotes table nor the timestamps, and leaves the user rate-limited for the key
\* exactly while the recorded time is less than the duration ago; and no step takes
\* a timestamp away or moves it back.
C31_RecordedBeforeStoreWrite ==
    /\ [](\A i \in 1..Len(quote_calls) :
            quote_calls[i].pc \in {"add", "modify"}
                => /\ quote_calls[i].user \in DOMAIN get_rate_limits(CallKey(quote_calls[i]))
                   /\ get_rate_limits(CallKey(quote_calls[i]))[quote_calls[i].user] <= now)
    /\ [][\A i \in 1..Len(quote_calls) :
            (quote_calls[i].pc \in {"add", "modify"} /\ quote_calls'[i].pc = "raised")
                => /\ quote_score' = quote_score
                   /\ rate_limits' = rate_limits
                   /\ is_rate_limited(quote_calls[i].user, CallKey(quote_calls[i]))
                      <=> now < get_rate_limits(CallKey(quote_calls[i]))[quote_calls[i].user]
                                + duration[CallKey(quote_calls[i]).action]]_vars
    /\ [][\A k \in RateKeys, u \in RateUsers :
            u \in DOMAIN rate_limits[k]
                => u \in DOMAIN rate_limits'[k] /\ rate_limits'[k][u] >= rate_limits[k][u]]_vars

\* C31 (witness): the one call so far, an aq, raised at its store write: no quote was
\* added, and in the last second of the window its user is still rate-limited.
C31_Witness ==
    /\ Len(quote_calls) = 1
    /\ quote_calls[1].handler = "add_quote"
    /\ quote_calls[1].pc = "raised"
    /\ DOMAIN quote_score = Quotes
    /\ discord_log = <<>>
    /\ now = last_recorded[CallKey(quote_calls[1])][quote_calls[1].user]
              + duration["quote.add"] - 1
    /\ now > last_recorded[CallKey(quote_calls[1])][quote_calls[1].user]
    /\ is_rate_limited(quote_calls[1].user, CallKey(quote_calls[1]))

\* The amount stored for a user and emoji (none when there is no row), and the sum
\* of the deltas of the calls for them.
RECURSIVE DeltaSum(_, _, _)
DeltaSum(calls, u, e) ==
    IF calls = <<>> THEN 0
    ELSE (IF Head(calls).user = u /\ Head(calls).emoji = e THEN Head(calls).delta ELSE 0)
         + DeltaSum(Tail(calls), u, e)

StoredAmount(u, e) ==
    IF [user |-> u, emoji |-> e] \in DOMAIN emoji_votes
    THEN emoji_votes[[user |-> u, emoji |-> e]] ELSE 0

\* C32: emoji scores track reactions: for every user and emoji with calls of
\* add_emoji_vote, the stored amount is the sum of the deltas of the calls, also
\* when the first call is a removal.
C32_EmojiAmountIsSum ==
    \A u \in RateUsers, e \in EmojiKinds \ {"partial"} :
        (\E i \in 1..Len(emoji_deltas) : emoji_deltas[i].user = u /\ emoji_deltas[i].emoji = e)
            => StoredAmount(u, e) = DeltaSum(emoji_deltas, u, e)

\* The net of the vote tokens of the scanned text for one member.
NetVotes(m, t) ==
    TokenCount(ScannedTokens(m), t, "++") - TokenCount(ScannedTokens(m), t, "--")

\* C33: a target whose vote tokens in a message net to zero gets no vote row; and
\* when every target other than the author nets to zero, no row is persisted for
\* the message and it receives no acknowledgement reaction.
C33_ZeroNetNotPersisted ==
    (message # NoMessage /\ message.author # BotUser)
        => /\ \A k \in 1..Len(votes_stored) : \A row \in votes_stored[k] : row[2] # 0
           /\ (/\ OtherTargets(message) # {}
               /\ \A t \in OtherTargets(message) : NetVotes(message, t) = 0)
                 => /\ \A k \in 1..Len(votes_stored) : votes_stored[k] = {}
                    /\ "check" \notin reactions

====
